---- MODULE Spec2Model ----
(***************************************************************************)
(* Model of the efcp repository: the DTCP reliability layer (dtcp/src),    *)
(* the DTP demultiplexing socket (dtp/src) as a whole and lock by lock,    *)
(* the layered packets (channel/src, */src/packet.rs) and EFCP's           *)
(* negotiation, handshake and Disco channel (efcp/src).  Each subsystem    *)
(* has its own specification over the variables it owns.                   *)
(***************************************************************************)
EXTENDS Integers, Sequences, FiniteSets, TLC

(***************************************************************************)
(* Bounds of the DTCP model.                                               *)
(***************************************************************************)
\* number of DtcpChannel::send calls the application makes
MaxSend == 2
\* largest max_rtx the builder is configured with
MaxRtxCfg == 1
\* number of packets b.recv hands to its application
MaxDeliver == 3

\* rtx interval in clock ticks (DtcpBuilder::rtx)
RtxTime == 1
\* u16 sequence numbers
SeqMod == 65536

SeqNums == 0..(MaxSend - 1)

(***************************************************************************)
(* Bounds of the DTP model.                                                *)
(***************************************************************************)
\* number of distinct channel keys (peer_addr, channel_id) that occur
NumKeys == 2
\* largest max_conns a socket is bound with
MaxConnsCfg == 2
\* the rx_buf_len the socket is bound with
RxBufLen == 1
\* DtpChannel values the application holds at a time
MaxHandles == 2
\* largest rx_buf_len a socket is bound with
MaxRxBufLen == 2
\* threads of the application that are inside the socket at a time
NumThreads == 2
\* operations the threads start in a run
MaxOps == 4
\* datagrams that arrive in a run
MaxArrivals == 3

\* the channel keys: Channel { peer_addr, channel_id }
Keys == 1..NumKeys
\* payloads of well-formed datagrams
Payloads == {"ping"}
\* a datagram of length zero: DtpPacket::check fails on it
Empty == "empty"

(***************************************************************************)
(* Bounds of the negotiation model.                                        *)
(***************************************************************************)
\* longest protocol list a Negotiation is created with
MaxProtos == 2
\* Messages a peer sends to one Negotiation in a run
MaxPeerMsgs == 3

(***************************************************************************)
(* Bounds of the Disco model.                                              *)
(***************************************************************************)
\* width in bits the nonce counter is reduced to (AtomicU64 in the code)
NonceBits == 2
\* number of DiscoChannel::send calls
MaxDiscoSend == 5

(***************************************************************************)
(* Bounds of the packet model.                                             *)
(***************************************************************************)
\* largest payload_len given to new
MaxPayloadLen == 2
\* length in bytes the authentication tag is reduced to (disco::TAG_LEN)
TagLen == 2
\* number of bytes behind its first two that a received datagram may have
MaxWireTail == 11

\* length of the nonce in a Disco header
NonceLen == 8
\* const MAX_PACKET_LEN
MAX_PACKET_LEN == 65535

(***************************************************************************)
(* Bounds of the single channel model.                                     *)
(***************************************************************************)
\* DtcpBuilder.keep_alive in ticks
KeepAlive == 2

(***************************************************************************)
(* Bounds of the sequence number model.                                    *)
(***************************************************************************)
\* width in bits the seq_num counter is reduced to (AtomicCell<u16>)
SeqBits == 1
\* number of DtcpChannel::send calls that wrap the reduced counter
MaxWrapSend == 3

\* the protocol identifiers that occur
Protocols == {"/a", "/b", "/c"}
\* Option::None where a protocol is expected
NoProto == "none"

VARIABLES
    \* ---- DTCP: sending DtcpChannel a, receiving DtcpChannel b
    max_rtx,      \* DtcpBuilder.max_rtx
    set_drf,      \* a.set_drf
    seq_num,      \* a.seq_num
    txs,          \* every InnerTransmission created so far, with its task's position
    queue,        \* a.tx.queue: sequence of <<seq_num, index into txs>>
    timedout,     \* a.tx.timedout
    wire_ab,      \* Transfer packets the substrate holds on their way from a to b
    wire_ba,      \* Control packets the substrate holds on their way from b to a
    last_ack,     \* b.last_ack
    delivered,    \* packets b.recv has returned, in order
    arrived,      \* seq_nums of the Transfers b.recv has read from its channel
    send_res,     \* result of the latest a.send
    \* ---- DTP: one InnerDtpSocket and the application using it
    max_conns,       \* bind's max_conns: capacity of the slab and of incoming
    rx_buf_len,      \* InnerDtpSocket.rx_buf_len
    connections,     \* the slab: occupied slot index -> FIFO of payloads
    channel_lookup,  \* HashMap<Channel, usize>
    channels,        \* HashSet<Channel>
    incoming,        \* ArrayQueue<Channel>
    handles,         \* number of DtpChannel values the application holds, per key
    panicked,        \* a thread of the program has panicked
    last,            \* the latest operation on the socket and its outcome
    \* ---- negotiation: Negotiation n1 (calls initiate) and n2
    n1,              \* the initiator's Negotiation
    n2,              \* the responder's Negotiation
    neg_msg,         \* the Message under way and the side it goes to
    neg_err,         \* Negotiation::message returned ProtocolError
    neg_log,         \* the Messages sent so far
    neg_box,         \* both sides initiate: the Messages under way to each side
    \* ---- EFCP handshake: EfcpChannel::initiator against a responder
    hs_peer,         \* the responder is EfcpChannel::responder or another program
    hs_addr,         \* the DTP channel's peer address the responder is given
    ini,             \* the locals of EfcpChannel::initiator and where it stands
    rsp,             \* the locals of EfcpChannel::responder and where it stands
    hs_to_i,         \* handshake packets under way to the initiator
    hs_to_r,         \* handshake packets under way to the responder
    hs_sent,         \* the packets the responder has sent, in order
    \* ---- Disco: one DiscoChannel and the sends on it
    disco_nonce,     \* DiscoChannel.nonce
    disco_sends,     \* every DiscoChannel::send so far: its nonce, payload, position
    disco_wire,      \* the packets handed to the channel below, in order
    \* ---- packets: one packet followed through new, put, into_lower and parse
    pkt_layer,       \* the layer whose packet type is followed
    pkt_n,           \* the payload_len given to new
    pkt_puts,        \* the number of bytes put into the packet since new
    pkt_from,        \* the packet came from new or from the channel below
    pkt_upper,       \* the layer's packet while the caller holds it
    pkt_lower,       \* the packet of the layer below while the caller holds it
    pkt_res,         \* the outcome of the latest parse
    \* ---- one DtcpChannel that sends and receives, against any peer
    recv_res,        \* what the latest pass of DtcpChannel::recv's loop ended in
    ack_out,         \* seq_num of the latest Control handed to the channel below
    chan_err,        \* the channel below has returned an error to a Transfer send
    idle,            \* ticks since the latest DtcpChannel::send
    \* ---- DTP lock by lock: threads inside InnerDtpSocket
    thr,             \* per thread: its operation, its position and its locals
    lock,            \* per mutex: the thread that holds its guard, or 0
    poisoned,        \* the mutexes a panicking thread has poisoned
    ops,             \* operations the threads have started
    arrivals,        \* datagrams the UDP socket has handed over
    \* ---- DTP slot FIFOs: what the latest poll of a DtpChannel met
    got,             \* the channel polled, the datagram read and the packet returned
    \* ---- OuterDtpSocket (dtp/src/socket.rs): one mutex around the socket
    inner,           \* the task that holds the guard of inner, or 0
    otask,           \* per task: the method it is in, its position, its channel
    \* ---- DTCP over a substrate that loses one Control packet
    acks_lost     \* Control packets the substrate has lost

dtcpVars == <<max_rtx, set_drf, seq_num, txs, queue, timedout,
              wire_ab, wire_ba, last_ack, delivered, arrived, send_res>>

dtpVars == <<max_conns, rx_buf_len, connections, channel_lookup, channels,
             incoming, handles, panicked, last>>

negVars == <<n1, n2, neg_msg, neg_err, neg_log, neg_box>>

efcpVars == <<hs_peer, hs_addr, ini, rsp, hs_to_i, hs_to_r, hs_sent>>

discoVars == <<disco_nonce, disco_sends, disco_wire>>

chanVars == <<recv_res, ack_out, chan_err, idle>>

pktVars == <<pkt_layer, pkt_n, pkt_puts, pkt_from, pkt_upper, pkt_lower, pkt_res>>

thrVars == <<thr, lock, poisoned, ops, arrivals>>

fifoVars == <<got>>

outerVars == <<inner, otask>>

lossVars == <<acks_lost>>

vars == <<dtcpVars, dtpVars, negVars, efcpVars, discoVars, pktVars, chanVars, thrVars, fifoVars, outerVars, lossVars>>

\* the variables a subsystem's operations leave alone
notDtcp == <<dtpVars, negVars, efcpVars, discoVars, pktVars, chanVars, thrVars, fifoVars, outerVars, lossVars>>

notDtp == <<dtcpVars, negVars, efcpVars, discoVars, pktVars, chanVars, thrVars, fifoVars, outerVars, lossVars>>

notNeg == <<dtcpVars, dtpVars, efcpVars, discoVars, pktVars, chanVars, thrVars, fifoVars, outerVars, lossVars>>

notEfcp == <<dtcpVars, dtpVars, negVars, discoVars, pktVars, chanVars, thrVars, fifoVars, outerVars, lossVars>>

notDisco == <<dtcpVars, dtpVars, negVars, efcpVars, pktVars, chanVars, thrVars, fifoVars, outerVars, lossVars>>

notPkt == <<dtcpVars, dtpVars, negVars, efcpVars, discoVars, chanVars, thrVars, fifoVars, outerVars, lossVars>>

notChan == <<dtpVars, negVars, efcpVars, discoVars, pktVars, thrVars, fifoVars, outerVars, lossVars>>

notThr == <<dtcpVars, negVars, efcpVars, discoVars, pktVars, chanVars, fifoVars, outerVars, lossVars>>

notFifo == <<dtcpVars, negVars, efcpVars, discoVars, pktVars, chanVars, thrVars, outerVars, lossVars>>

notOuter == <<dtcpVars, dtpVars, negVars, efcpVars, discoVars, pktVars, chanVars, thrVars, fifoVars, lossVars>>

notLoss == <<dtpVars, negVars, efcpVars, discoVars, pktVars, chanVars, thrVars, fifoVars, outerVars>>

----------------------------------------------------------------------------
(***************************************************************************)
(* DTCP                                                                    *)
(*                                                                         *)
(* The substrate between a and b holds a set of packets: a packet it holds *)
(* can be handed to the peer in any order, and handed over again later     *)
(* (duplicate); a packet is lost when it is sent.  Time is kept per        *)
(* transmission as the number of ticks since last_tx, counted up to        *)
(* RtxTime + 1 (all the code asks is whether last_tx + timer >= now).      *)
(***************************************************************************)

\* `x as i8`
AsI8(x) == LET y == x % 256 IN IF y < 128 THEN y ELSE y - 256

\* i8 wrapping subtraction of AtomicCell<i8>::fetch_sub
I8Sub(x, d) == AsI8(x - d + 256)

\* sender.send(packet): the substrate takes the packet or loses it
Transmit(wire, p, lost) == IF lost THEN wire ELSE wire \cup {p}

\* channel.recv() returned p; the substrate may hold a further copy of it
Take(wire, p, dup) == IF dup THEN wire ELSE wire \ {p}

DtcpInit ==
    /\ max_rtx \in 0..MaxRtxCfg
    /\ set_drf = TRUE
    /\ seq_num = 0
    /\ txs = <<>>
    /\ queue = <<>>
    /\ timedout = FALSE
    /\ wire_ab = {}
    /\ wire_ba = {}
    /\ last_ack = 0
    /\ delivered = <<>>
    /\ arrived = {}
    /\ send_res = "none"

\* Retransmission::send without its test of timedout
RetransmissionSend_Unchecked(sn, drf) ==
    /\ txs' = Append(txs, [sn |-> sn, drf |-> drf,
                           tx_left |-> AsI8(max_rtx) + 1,
                           since_tx |-> 0, acked |-> FALSE,
                           pc |-> "send", sent |-> 0])
    /\ queue' = Append(queue, <<sn, Len(txs) + 1>>)
    /\ send_res' = "ok"

\* Retransmission::send
RetransmissionSend(sn, drf) ==
    IF timedout
    THEN /\ send_res' = "TimedOut"
         /\ UNCHANGED <<txs, queue>>
    ELSE /\ txs' = Append(txs, [sn |-> sn, drf |-> drf,
                                tx_left |-> AsI8(max_rtx) + 1,
                                since_tx |-> 0, acked |-> FALSE,
                                pc |-> "send", sent |-> 0])
         /\ queue' = Append(queue, <<sn, Len(txs) + 1>>)
         /\ send_res' = "ok"

\* DtcpChannel::send / send_transfer
DtcpSend ==
    /\ seq_num < MaxSend
    /\ set_drf' = FALSE
    /\ seq_num' = (seq_num + 1) % SeqMod
    /\ RetransmissionSend(seq_num, set_drf)
    /\ UNCHANGED <<max_rtx, timedout, wire_ab, wire_ba, last_ack,
                   delivered, arrived>>
    /\ UNCHANGED notDtcp

\* Transmission::send with `fetch_sub(1) >= 0` for `fetch_sub(1) > 0`
TransmissionSend_OneMore(i, lost) ==
    LET t == txs[i] IN
    IF t.tx_left >= 0
    THEN /\ txs' = [txs EXCEPT ![i].tx_left = I8Sub(t.tx_left, 1),
                               ![i].since_tx = 0,
                               ![i].sent = t.sent + 1,
                               ![i].pc = "check"]
         /\ wire_ab' = Transmit(wire_ab, [sn |-> t.sn, drf |-> t.drf], lost)
         /\ UNCHANGED timedout
    ELSE /\ txs' = [txs EXCEPT ![i].tx_left = I8Sub(t.tx_left, 1),
                               ![i].pc = "check"]
         /\ timedout' = TRUE
         /\ lost
         /\ UNCHANGED wire_ab

\* Transmission::send with tx_left.load() for tx_left.fetch_sub(1)
TransmissionSend_NoDecrement(i, lost) ==
    LET t == txs[i] IN
    IF t.tx_left > 0
    THEN /\ txs' = [txs EXCEPT ![i].since_tx = 0,
                               ![i].sent = t.sent + 1,
                               ![i].pc = "check"]
         /\ wire_ab' = Transmit(wire_ab, [sn |-> t.sn, drf |-> t.drf], lost)
         /\ UNCHANGED timedout
    ELSE /\ txs' = [txs EXCEPT ![i].pc = "check"]
         /\ timedout' = TRUE
         /\ lost
         /\ UNCHANGED wire_ab

\* Transmission::send, called by the task of txs[i]
TransmissionSend(i, lost) ==
    LET t == txs[i] IN
    IF t.tx_left > 0
    THEN /\ txs' = [txs EXCEPT ![i].tx_left = I8Sub(t.tx_left, 1),
                               ![i].since_tx = 0,
                               ![i].sent = t.sent + 1,
                               ![i].pc = "check"]
         /\ wire_ab' = Transmit(wire_ab, [sn |-> t.sn, drf |-> t.drf], lost)
         /\ UNCHANGED timedout
    ELSE /\ txs' = [txs EXCEPT ![i].tx_left = I8Sub(t.tx_left, 1),
                               ![i].pc = "check"]
         /\ timedout' = TRUE
         /\ lost
         /\ UNCHANGED wire_ab

\* Transmission::send_all: the first send, and the send of a later iteration
TaskSend(i) ==
    /\ txs[i].pc = "send"
    /\ \E lost \in BOOLEAN : TransmissionSend(i, lost)
    /\ UNCHANGED <<max_rtx, set_drf, seq_num, queue, wire_ba, last_ack,
                   delivered, arrived, send_res>>
    /\ UNCHANGED notDtcp

\* last_tx + timer >= now
TimerPending(t) == t.since_tx <= RtxTime

\* Transmission::send_all: one pass over the tests at the top of the loop
TaskCheck(i) ==
    /\ txs[i].pc = "check"
    /\ IF txs[i].acked \/ timedout
       THEN txs' = [txs EXCEPT ![i].pc = "done"]
       ELSE /\ ~TimerPending(txs[i])
            /\ txs' = [txs EXCEPT ![i].pc = "send"]
    /\ UNCHANGED <<max_rtx, set_drf, seq_num, queue, timedout, wire_ab,
                   wire_ba, last_ack, delivered, arrived, send_res>>
    /\ UNCHANGED notDtcp

\* Retransmission::ack: the queue after the retain
RECURSIVE Retain(_, _)
Retain(q, k) ==
    IF q = <<>> THEN <<>>
    ELSE IF Head(q)[1] <= k THEN Retain(Tail(q), k)
         ELSE <<Head(q)>> \o Retain(Tail(q), k)

\* Retransmission::ack with `*sn < seq_num` for `*sn <= seq_num` where the
\* transmissions are marked
AckedBy_Strict(q, k) == {q[j][2] : j \in {j \in 1..Len(q) : q[j][1] < k}}

\* Retransmission::ack: the indices of the transmissions it marks acked
AckedBy(q, k) == {q[j][2] : j \in {j \in 1..Len(q) : q[j][1] <= k}}

\* Retransmission::ack
RetransmissionAck(k) ==
    /\ queue' = Retain(queue, k)
    /\ txs' = [i \in 1..Len(txs) |->
                 IF i \in AckedBy(queue, k)
                 THEN [txs[i] EXCEPT !.acked = TRUE] ELSE txs[i]]

\* DtcpChannel::recv on a: one iteration that reads a Control packet
RecvControl(k, dup) ==
    /\ k \in wire_ba
    /\ wire_ba' = Take(wire_ba, k, dup)
    /\ RetransmissionAck(k)
    /\ UNCHANGED <<max_rtx, set_drf, seq_num, timedout, wire_ab,
                   last_ack, delivered, arrived, send_res>>
    /\ UNCHANGED notDtcp

\* FetchMax::fetch_max
FetchMax(old, nval) == IF old >= nval THEN old ELSE nval

\* DtcpChannel::recv on b: one iteration that reads a Transfer packet;
\* send_ack hands the Control packet to the substrate
RecvTransfer(p, dup, lost) ==
    /\ p \in wire_ab
    /\ Len(delivered) < MaxDeliver
    /\ wire_ab' = Take(wire_ab, p, dup)
    /\ arrived' = arrived \cup {p.sn}
    /\ IF p.drf
       THEN /\ last_ack' = p.sn
            /\ wire_ba' = Transmit(wire_ba, p.sn, lost)
            /\ delivered' = Append(delivered, p)
       ELSE IF p.sn = last_ack + 1
       THEN /\ last_ack' = FetchMax(last_ack, p.sn)
            /\ wire_ba' = Transmit(wire_ba, p.sn, lost)
            /\ delivered' = Append(delivered, p)
       ELSE /\ lost
            /\ UNCHANGED <<last_ack, wire_ba, delivered>>
    /\ UNCHANGED <<max_rtx, set_drf, seq_num, txs, queue, timedout, send_res>>
    /\ UNCHANGED notDtcp

\* the clock advances by one tick
Tick ==
    /\ \E i \in 1..Len(txs) : txs[i].pc # "done" /\ TimerPending(txs[i])
    /\ txs' = [i \in 1..Len(txs) |->
                 IF txs[i].pc # "done" /\ TimerPending(txs[i])
                 THEN [txs[i] EXCEPT !.since_tx = @ + 1] ELSE txs[i]]
    /\ UNCHANGED <<max_rtx, set_drf, seq_num, queue, timedout, wire_ab,
                   wire_ba, last_ack, delivered, arrived, send_res>>
    /\ UNCHANGED notDtcp

DtcpTask == \E i \in 1..Len(txs) : TaskSend(i) \/ TaskCheck(i)

DtcpRecvA == \E k \in wire_ba : \E dup \in BOOLEAN : RecvControl(k, dup)

DtcpRecvB ==
    \E p \in wire_ab : \E dup \in BOOLEAN : \E lost \in BOOLEAN :
        RecvTransfer(p, dup, lost)

\* a caller of Retransmission::ack other than DtcpChannel::recv, as in
\* retransmission.rs tests: any seq_num, at any time
RtxAck ==
    /\ \E k \in SeqNums : RetransmissionAck(k)
    /\ UNCHANGED <<max_rtx, set_drf, seq_num, timedout, wire_ab, wire_ba,
                   last_ack, delivered, arrived, send_res>>
    /\ UNCHANGED notDtcp

\* ---- the transmission budget for every max_rtx the builder takes ----

\* the values of DtcpBuilder::set_max_rtx's u8 argument
MaxRtxValues == 0..255

\* `self.max_rtx as i8 + 1`: the sum leaves i8 at 127 + 1, where a build
\* with overflow checks panics and one without wraps
TxLeftNew(m) ==
    IF AsI8(m) + 1 > 127
    THEN {[panic |-> TRUE, tx_left |-> 0], [panic |-> FALSE, tx_left |-> -128]}
    ELSE {[panic |-> FALSE, tx_left |-> AsI8(m) + 1]}

\* a channel built with any max_rtx
BudgetInit ==
    /\ max_rtx \in MaxRtxValues
    /\ set_drf = TRUE
    /\ seq_num = 0
    /\ txs = <<>>
    /\ queue = <<>>
    /\ timedout = FALSE
    /\ wire_ab = {}
    /\ wire_ba = {}
    /\ last_ack = 0
    /\ delivered = <<>>
    /\ arrived = {}
    /\ send_res = "none"

\* DtcpChannel::send of the first Transfer: Retransmission::send stores the
\* budget
BudgetSend ==
    /\ txs = <<>>
    /\ send_res = "none"
    /\ \E r \in TxLeftNew(max_rtx) :
          IF r.panic
          THEN /\ send_res' = "panic"
               /\ UNCHANGED <<txs, queue>>
          ELSE /\ txs' = <<[sn |-> seq_num, drf |-> set_drf,
                            tx_left |-> r.tx_left,
                            since_tx |-> 0, acked |-> FALSE,
                            pc |-> "send", sent |-> 0]>>
               /\ queue' = <<<<seq_num, 1>>>>
               /\ send_res' = "ok"
    /\ set_drf' = FALSE
    /\ seq_num' = (seq_num + 1) % SeqMod
    /\ UNCHANGED <<max_rtx, timedout, wire_ab, wire_ba, last_ack,
                   delivered, arrived>>
    /\ UNCHANGED notDtcp

\* the task of the Transfer; the substrate takes every copy and b reads it
BudgetTask ==
    \/ /\ txs /= <<>>
       /\ txs[1].pc = "send"
       /\ TransmissionSend(1, txs[1].tx_left <= 0)
       /\ UNCHANGED <<max_rtx, set_drf, seq_num, queue, wire_ba,
                      last_ack, delivered, arrived, send_res>>
       /\ UNCHANGED notDtcp
    \/ /\ txs /= <<>>
       /\ TaskCheck(1)

BudgetNext == BudgetSend \/ BudgetTask \/ Tick

\* ---- DTCP over a substrate that loses one Control packet and delivers
\* every other packet before the next rtx timer expires ----

LossIdle == acks_lost = 0

\* the task of txs[i]; the substrate takes every Transfer
LossTask ==
    /\ \E i \in 1..Len(txs) :
          \/ /\ txs[i].pc = "send"
             /\ TransmissionSend(i, txs[i].tx_left <= 0)
             /\ UNCHANGED <<max_rtx, set_drf, seq_num, queue, wire_ba,
                            last_ack, delivered, arrived, send_res>>
             /\ UNCHANGED notDtcp
          \/ TaskCheck(i)

\* DtcpChannel::recv on a reads the Control packet the substrate holds
LossRecvA == \E k \in wire_ba : RecvControl(k, FALSE)

\* DtcpChannel::recv on b reads the Transfer the substrate holds; the
\* Control packet send_ack hands to the substrate is lost if none was before
LossRecvB ==
    \E p \in wire_ab : \E lost \in BOOLEAN :
        /\ lost => acks_lost = 0
        /\ wire_ab' = Take(wire_ab, p, FALSE)
        /\ arrived' = arrived \cup {p.sn}
        /\ IF p.drf
           THEN /\ last_ack' = p.sn
                /\ wire_ba' = Transmit(wire_ba, p.sn, lost)
                /\ delivered' = Append(delivered, p)
                /\ acks_lost' = IF lost THEN acks_lost + 1 ELSE acks_lost
           ELSE IF p.sn = last_ack + 1
           THEN /\ last_ack' = FetchMax(last_ack, p.sn)
                /\ wire_ba' = Transmit(wire_ba, p.sn, lost)
                /\ delivered' = Append(delivered, p)
                /\ acks_lost' = IF lost THEN acks_lost + 1 ELSE acks_lost
           ELSE /\ ~lost
                /\ UNCHANGED <<last_ack, wire_ba, delivered, acks_lost>>
        /\ UNCHANGED <<max_rtx, set_drf, seq_num, txs, queue, timedout, send_res>>
        /\ UNCHANGED notLoss

\* the clock advances once the substrate has delivered what it holds and
\* no task is about to transmit
LossTick ==
    /\ wire_ab = {}
    /\ wire_ba = {}
    /\ \A i \in 1..Len(txs) : txs[i].pc /= "send"
    /\ Tick

LossNext == DtcpSend \/ LossTask \/ LossRecvA \/ LossRecvB \/ LossTick

----------------------------------------------------------------------------
(***************************************************************************)
(* DTP                                                                     *)
(*                                                                         *)
(* The socket's tables are handled as one record s so that the loops of    *)
(* poll_incoming and poll_channel can be followed to their return; its     *)
(* field udp holds the datagrams the UDP socket has ready during the call, *)
(* oldest first (UdpEcnSocket::poll_recv is Pending once they are read).   *)
(* A free slab slot is taken lowest index first.                           *)
(***************************************************************************)

\* what UdpEcnSocket::poll_recv can return: a source and a payload
Datagrams == [src : Keys, payload : Payloads \cup {Empty}]

\* the datagrams ready during one call: the program polls often enough to
\* find at most one
Bursts == {<<>>} \cup {<<d>> : d \in Datagrams}

Sock(ready) == [connections |-> connections, channel_lookup |-> channel_lookup,
                channels |-> channels, incoming |-> incoming, udp |-> ready]

SetSock(s) ==
    /\ connections' = s.connections
    /\ channel_lookup' = s.channel_lookup
    /\ channels' = s.channels
    /\ incoming' = s.incoming

\* Option::None as a connection id
None == -1

Min(S) == CHOOSE x \in S : \A y \in S : x <= y

\* f with key k mapped to v
Put(f, k, v) == [x \in (DOMAIN f) \cup {k} |-> IF x = k THEN v ELSE f[x]]

\* f without key k
Del(f, k) == [x \in (DOMAIN f) \ {k} |-> f[x]]

\* the empty map
NoEntries == [x \in {} |-> 0]

\* InnerDtpSocket::connection_id: [s |-> the tables afterwards, id |-> result]
ConnectionId(s, ch) ==
    IF ch \in DOMAIN s.channel_lookup
    THEN [s |-> s, id |-> s.channel_lookup[ch]]
    ELSE IF Cardinality(DOMAIN s.connections) < max_conns
    THEN LET conn_id == Min((0..(max_conns - 1)) \ DOMAIN s.connections) IN
         [s |-> [s EXCEPT !.connections = Put(@, conn_id, <<>>),
                          !.channel_lookup = Put(@, ch, conn_id)],
          id |-> conn_id]
    ELSE [s |-> s, id |-> None]

\* a queue that makes room for the packet by dropping its oldest one
PushPacket_DropOldest(q, payload) ==
    IF Len(q) < rx_buf_len THEN Append(q, payload)
    ELSE Append(Tail(q), payload)

\* ArrayQueue::push on a slot's FIFO: a full queue refuses the packet
PushPacket(q, payload) == IF Len(q) < rx_buf_len THEN Append(q, payload) ELSE q

\* InnerDtpSocket::poll_recv: [s |-> tables afterwards, res |-> outcome]
PollRecv(s) ==
    IF s.udp = <<>> THEN [s |-> s, res |-> "pending"]
    ELSE
    LET d == Head(s.udp)
        s1 == [s EXCEPT !.udp = Tail(@)]
    IN
    IF d.payload = Empty THEN [s |-> s1, res |-> "err"]
    ELSE
    LET c == ConnectionId(s1, d.src) IN
    IF c.id = None THEN [s |-> c.s, res |-> "ok"]
    ELSE
    LET s2 == [c.s EXCEPT !.connections[c.id] = PushPacket(@, d.payload)] IN
    IF d.src \in s2.channels THEN [s |-> s2, res |-> "ok"]
    ELSE IF Len(s2.incoming) < max_conns
    THEN [s |-> [s2 EXCEPT !.incoming = Append(@, d.src)], res |-> "ok"]
    ELSE [s |-> s2, res |-> "panic"]

\* InnerDtpSocket::poll_incoming, the loop after the fast path
RECURSIVE PollIncomingLoop(_)
PollIncomingLoop(s) ==
    LET r == PollRecv(s) IN
    IF r.res # "ok" THEN [s |-> r.s, res |-> r.res, key |-> 0]
    ELSE IF r.s.incoming = <<>> THEN PollIncomingLoop(r.s)
    ELSE
    LET channel == Head(r.s.incoming)
        s1 == [r.s EXCEPT !.incoming = Tail(@)]
    IN
    IF channel \notin s1.channels
    THEN [s |-> [s1 EXCEPT !.channels = @ \cup {channel}],
          res |-> "ok", key |-> channel]
    ELSE PollIncomingLoop(s1)

\* InnerDtpSocket::poll_incoming
PollIncoming(s) ==
    IF s.incoming # <<>>
    THEN [s |-> [s EXCEPT !.incoming = Tail(@)], res |-> "ok",
          key |-> Head(s.incoming)]
    ELSE PollIncomingLoop(s)

\* InnerDtpSocket::poll_channel: look the slot up and pop its FIFO
PopChannel(s, ch) ==
    LET c == ConnectionId(s, ch) IN
    IF c.id # None /\ c.s.connections[c.id] # <<>>
    THEN [s |-> [c.s EXCEPT !.connections[c.id] = Tail(@)], res |-> "ok",
          packet |-> Head(c.s.connections[c.id])]
    ELSE [s |-> c.s, res |-> "empty", packet |-> Empty]

\* InnerDtpSocket::poll_channel, the loop after the fast path
RECURSIVE PollChannelLoop(_, _)
PollChannelLoop(s, ch) ==
    LET r == PollRecv(s) IN
    IF r.res # "ok" THEN [s |-> r.s, res |-> r.res, packet |-> Empty]
    ELSE LET p == PopChannel(r.s, ch) IN
         IF p.res = "ok" THEN p ELSE PollChannelLoop(p.s, ch)

\* InnerDtpSocket::poll_channel
PollChannel(s, ch) ==
    LET p == PopChannel(s, ch) IN
    IF p.res = "ok" THEN p ELSE PollChannelLoop(p.s, ch)

\* InnerDtpSocket::outgoing without its test of channels
InnerOutgoing_Unchecked(s, ch) ==
    [s |-> [s EXCEPT !.channels = @ \cup {ch}], res |-> "ok"]

\* InnerDtpSocket::outgoing
InnerOutgoing(s, ch) ==
    IF ch \in s.channels
    THEN [s |-> s, res |-> "taken"]
    ELSE [s |-> [s EXCEPT !.channels = @ \cup {ch}], res |-> "ok"]

\* InnerDtpSocket::close: alloc tells whether connection_id inserted a slot
Close(s, ch) ==
    LET s1 == [s EXCEPT !.channels = @ \ {ch}]
        c == ConnectionId(s1, ch)
        alloc == ch \notin DOMAIN s1.channel_lookup /\ c.id # None
    IN
    IF c.id = None THEN [s |-> s1, res |-> "panic", alloc |-> alloc]
    ELSE [s |-> [c.s EXCEPT !.channel_lookup = Del(@, ch),
                            !.connections = Del(@, c.id)],
          res |-> "ok", alloc |-> alloc]

NumHandles == LET RECURSIVE Sum(_)
                  Sum(S) == IF S = {} THEN 0
                            ELSE LET k == CHOOSE k \in S : TRUE
                                 IN handles[k] + Sum(S \ {k})
              IN Sum(Keys)

DtpInit ==
    /\ max_conns \in 1..MaxConnsCfg
    /\ rx_buf_len = RxBufLen
    /\ connections = NoEntries
    /\ channel_lookup = NoEntries
    /\ channels = {}
    /\ incoming = <<>>
    /\ handles = [k \in Keys |-> 0]
    /\ panicked = FALSE
    /\ last = [op |-> "none", key |-> 0, res |-> "none", alloc |-> FALSE]

\* the DTP variables while another subsystem is examined
DtpIdle ==
    /\ max_conns = 1
    /\ rx_buf_len = 1
    /\ connections = NoEntries
    /\ channel_lookup = NoEntries
    /\ channels = {}
    /\ incoming = <<>>
    /\ handles = [k \in Keys |-> 0]
    /\ panicked = FALSE
    /\ last = [op |-> "none", key |-> 0, res |-> "none", alloc |-> FALSE]

\* DtpSocket::outgoing
Outgoing ==
    /\ ~panicked
    /\ NumHandles < MaxHandles
    /\ \E ch \in Keys :
          LET r == InnerOutgoing(Sock(<<>>), ch) IN
          /\ SetSock(r.s)
          /\ handles' = IF r.res = "ok"
                        THEN [handles EXCEPT ![ch] = @ + 1] ELSE handles
          /\ last' = [op |-> "outgoing", key |-> ch, res |-> r.res,
                      alloc |-> FALSE]
    /\ UNCHANGED <<max_conns, rx_buf_len, panicked>>
    /\ UNCHANGED notDtp

\* Incoming::poll_next
IncomingNext ==
    /\ ~panicked
    /\ NumHandles < MaxHandles
    /\ \E ready \in Bursts :
       LET r == PollIncoming(Sock(ready)) IN
       /\ SetSock(r.s)
       /\ handles' = IF r.res = "ok"
                     THEN [handles EXCEPT ![r.key] = @ + 1] ELSE handles
       /\ panicked' = (r.res = "panic")
       /\ last' = [op |-> "incoming", key |-> r.key, res |-> r.res,
                   alloc |-> FALSE]
    /\ UNCHANGED <<max_conns, rx_buf_len>>
    /\ UNCHANGED notDtp

\* RecvFuture::poll on a DtpChannel the application holds
ChannelRecv ==
    /\ ~panicked
    /\ \E ch \in Keys :
          /\ handles[ch] > 0
          /\ \E ready \in Bursts :
             LET r == PollChannel(Sock(ready), ch) IN
             /\ SetSock(r.s)
             /\ panicked' = (r.res = "panic")
             /\ last' = [op |-> "recv", key |-> 0, res |-> "none",
                         alloc |-> FALSE]
    /\ UNCHANGED <<max_conns, rx_buf_len, handles>>
    /\ UNCHANGED notDtp

\* Drop for DtpChannel
DropChannel ==
    /\ ~panicked
    /\ \E ch \in Keys :
          /\ handles[ch] > 0
          /\ LET r == Close(Sock(<<>>), ch) IN
             /\ SetSock(r.s)
             /\ handles' = [handles EXCEPT ![ch] = @ - 1]
             /\ panicked' = (r.res = "panic")
             /\ last' = [op |-> "drop", key |-> ch, res |-> r.res,
                         alloc |-> r.alloc]
    /\ UNCHANGED <<max_conns, rx_buf_len>>
    /\ UNCHANGED notDtp

----------------------------------------------------------------------------
(***************************************************************************)
(* DTP slot FIFOs                                                          *)
(*                                                                         *)
(* The socket bound with any rx_buf_len, and datagrams with payloads that  *)
(* can be told apart, so that the order of a slot's FIFO can be seen.      *)
(***************************************************************************)

\* payloads of well-formed datagrams that can be told apart
FifoPayloads == {"ping", "pong"}

FifoBursts ==
    {<<>>} \cup {<<d>> : d \in [src : Keys, payload : FifoPayloads \cup {Empty}]}

\* no poll yet
NoPoll == [ch |-> 0, res |-> "none", packet |-> Empty, src |-> 0,
           payload |-> Empty, full |-> FALSE]

FifoInit ==
    /\ max_conns \in 1..MaxConnsCfg
    /\ rx_buf_len \in 1..MaxRxBufLen
    /\ connections = NoEntries
    /\ channel_lookup = NoEntries
    /\ channels = {}
    /\ incoming = <<>>
    /\ handles = [k \in Keys |-> 0]
    /\ panicked = FALSE
    /\ last = [op |-> "none", key |-> 0, res |-> "none", alloc |-> FALSE]
    /\ got = NoPoll

\* the FIFO variables while another subsystem is examined
FifoIdle == got = NoPoll

\* RecvFuture::poll on a DtpChannel the application holds; got keeps the
\* datagram the poll has read, if any, and whether the FIFO of the
\* datagram's key was full when it arrived
FifoRecv ==
    /\ ~panicked
    /\ \E ch \in Keys :
          /\ handles[ch] > 0
          /\ \E ready \in FifoBursts :
             LET r == PollChannel(Sock(ready), ch)
                 read == ready # <<>> /\ r.s.udp = <<>>
             IN
             /\ SetSock(r.s)
             /\ panicked' = (r.res = "panic")
             /\ last' = [op |-> "recv", key |-> 0, res |-> "none",
                         alloc |-> FALSE]
             /\ got' = [ch |-> ch, res |-> r.res, packet |-> r.packet,
                        src |-> IF read THEN ready[1].src ELSE 0,
                        payload |-> IF read THEN ready[1].payload ELSE Empty,
                        full |-> /\ read
                                 /\ ready[1].payload # Empty
                                 /\ ready[1].src \in DOMAIN channel_lookup
                                 /\ Len(connections[channel_lookup[ready[1].src]])
                                       = rx_buf_len]
    /\ UNCHANGED <<max_conns, rx_buf_len, handles>>
    /\ UNCHANGED notFifo

FifoNext ==
    \/ Outgoing
    \/ FifoRecv
    \/ DropChannel

\* the DTCP variables while another subsystem is examined
DtcpIdle ==
    /\ max_rtx = 0
    /\ set_drf = TRUE
    /\ seq_num = 0
    /\ txs = <<>>
    /\ queue = <<>>
    /\ timedout = FALSE
    /\ wire_ab = {}
    /\ wire_ba = {}
    /\ last_ack = 0
    /\ delivered = <<>>
    /\ arrived = {}
    /\ send_res = "none"

----------------------------------------------------------------------------
(***************************************************************************)
(* Negotiation                                                             *)
(***************************************************************************)

ProtoLists == UNION {[1..n -> Protocols] : n \in 0..MaxProtos}

NoMessage == [ty |-> "None", protocol |-> NoProto]

\* Negotiation::new
NegotiationNew(protocols) ==
    [protocols |-> protocols, started |-> FALSE, tried |-> 0,
     proposed |-> NoProto, accepted |-> NoProto, finished |-> FALSE]

\* Negotiation::supported answering yes to every protocol
Supported_Any(n, protocol) == Len(n.protocols) >= 0

\* Negotiation::supported
Supported(n, protocol) == \E i \in 1..Len(n.protocols) : n.protocols[i] = protocol

\* Negotiation::propose: [n |-> the Negotiation afterwards, msg |-> result]
Propose(n) ==
    LET i == n.tried
        m == [n EXCEPT !.tried = i + 1]
    IN
    IF i + 1 \in 1..Len(n.protocols)
    THEN [n |-> [m EXCEPT !.proposed = n.protocols[i + 1]],
          msg |-> [ty |-> "Propose", protocol |-> n.protocols[i + 1]]]
    ELSE [n |-> [m EXCEPT !.finished = TRUE],
          msg |-> [ty |-> "Fail", protocol |-> NoProto]]

\* Negotiation::initiate
Initiate(n) == Propose([n EXCEPT !.started = TRUE])

\* Negotiation::message whose Accept arm finishes without recording the
\* protocol
NegMessage_AcceptDropped(n, msg) ==
    LET m == [n EXCEPT !.started = TRUE] IN
    IF msg.ty = "Propose"
    THEN IF m.accepted # NoProto
         THEN [n |-> m, msg |-> NoMessage, err |-> TRUE]
         ELSE IF Supported(m, msg.protocol)
         THEN [n |-> [m EXCEPT !.accepted = msg.protocol, !.finished = TRUE],
               msg |-> [ty |-> "Accept", protocol |-> msg.protocol],
               err |-> FALSE]
         ELSE [n |-> Propose(m).n, msg |-> Propose(m).msg, err |-> FALSE]
    ELSE IF msg.ty = "Accept"
    THEN IF Supported(m, msg.protocol)
         THEN [n |-> [m EXCEPT !.finished = TRUE],
               msg |-> NoMessage, err |-> FALSE]
         ELSE [n |-> m, msg |-> NoMessage, err |-> TRUE]
    ELSE [n |-> [m EXCEPT !.finished = TRUE], msg |-> NoMessage, err |-> FALSE]

\* Negotiation::message:
\* [n |-> the Negotiation afterwards, msg |-> the reply if any, err |-> Err]
NegMessage(n, msg) ==
    LET m == [n EXCEPT !.started = TRUE] IN
    IF msg.ty = "Propose"
    THEN IF m.accepted # NoProto
         THEN [n |-> m, msg |-> NoMessage, err |-> TRUE]
         ELSE IF Supported(m, msg.protocol)
         THEN [n |-> [m EXCEPT !.accepted = msg.protocol, !.finished = TRUE],
               msg |-> [ty |-> "Accept", protocol |-> msg.protocol],
               err |-> FALSE]
         ELSE [n |-> Propose(m).n, msg |-> Propose(m).msg, err |-> FALSE]
    ELSE IF msg.ty = "Accept"
    THEN IF Supported(m, msg.protocol)
         THEN [n |-> [m EXCEPT !.accepted = msg.protocol, !.finished = TRUE],
               msg |-> NoMessage, err |-> FALSE]
         ELSE [n |-> m, msg |-> NoMessage, err |-> TRUE]
    ELSE [n |-> [m EXCEPT !.finished = TRUE], msg |-> NoMessage, err |-> FALSE]

\* Negotiation::into_protocol
IntoProtocol(n) == n.accepted

NegInit ==
    /\ \E l1 \in ProtoLists : n1 = NegotiationNew(l1)
    /\ \E l2 \in ProtoLists : n2 = NegotiationNew(l2)
    /\ neg_msg = [to |-> 0, m |-> NoMessage]
    /\ neg_err = FALSE
    /\ neg_log = <<>>
    /\ neg_box = <<<<>>, <<>>>>

\* the negotiation variables while another subsystem is examined
NegIdle ==
    /\ n1 = NegotiationNew(<<>>)
    /\ n2 = NegotiationNew(<<>>)
    /\ neg_msg = [to |-> 0, m |-> NoMessage]
    /\ neg_err = FALSE
    /\ neg_log = <<>>
    /\ neg_box = <<<<>>, <<>>>>

\* message m leaves for side `to`, if there is one
Post(to, m) ==
    IF m = NoMessage
    THEN /\ neg_msg' = [to |-> 0, m |-> NoMessage]
         /\ UNCHANGED neg_log
    ELSE /\ neg_msg' = [to |-> to, m |-> m]
         /\ neg_log' = Append(neg_log, m)

\* the initiator opens the dialog: n1.initiate()
NegInitiate ==
    /\ ~n1.started
    /\ neg_msg.to = 0
    /\ neg_log = <<>>
    /\ n1' = Initiate(n1).n
    /\ Post(2, Initiate(n1).msg)
    /\ UNCHANGED <<n2, neg_err, neg_box>>
    /\ UNCHANGED notNeg

\* the Message under way reaches n1, whose reply goes to n2
NegDeliver1 ==
    /\ neg_msg.to = 1
    /\ ~neg_err
    /\ LET r == NegMessage(n1, neg_msg.m) IN
       /\ n1' = r.n
       /\ neg_err' = r.err
       /\ Post(2, r.msg)
    /\ UNCHANGED <<n2, neg_box>>
    /\ UNCHANGED notNeg

\* the Message under way reaches n2, whose reply goes to n1
NegDeliver2 ==
    /\ neg_msg.to = 2
    /\ ~neg_err
    /\ LET r == NegMessage(n2, neg_msg.m) IN
       /\ n2' = r.n
       /\ neg_err' = r.err
       /\ Post(1, r.msg)
    /\ UNCHANGED <<n1, neg_box>>
    /\ UNCHANGED notNeg

\* both sides initiate: side i calls initiate() before it has read anything
SimInitiate(i) ==
    LET n == IF i = 1 THEN n1 ELSE n2
        r == Initiate(n)
    IN
    /\ ~n.started
    /\ IF i = 1 THEN n1' = r.n /\ UNCHANGED n2
                ELSE n2' = r.n /\ UNCHANGED n1
    /\ neg_box' = [neg_box EXCEPT ![3 - i] = Append(@, r.msg)]
    /\ neg_log' = Append(neg_log, r.msg)
    /\ UNCHANGED <<neg_msg, neg_err>>
    /\ UNCHANGED notNeg

\* both sides initiate: side i reads the oldest Message under way to it
\* and hands it to message(); a reply goes to the other side
SimDeliver(i) ==
    LET n == IF i = 1 THEN n1 ELSE n2
        r == NegMessage(n, Head(neg_box[i]))
    IN
    /\ n1.started /\ n2.started
    /\ ~neg_err
    /\ neg_box[i] # <<>>
    /\ IF i = 1 THEN n1' = r.n /\ UNCHANGED n2
                ELSE n2' = r.n /\ UNCHANGED n1
    /\ neg_err' = r.err
    /\ neg_box' = [neg_box EXCEPT
                     ![i] = Tail(@),
                     ![3 - i] = IF r.msg = NoMessage THEN @ ELSE Append(@, r.msg)]
    /\ neg_log' = IF r.msg = NoMessage THEN neg_log ELSE Append(neg_log, r.msg)
    /\ UNCHANGED neg_msg
    /\ UNCHANGED notNeg

----------------------------------------------------------------------------
(***************************************************************************)
(* EFCP handshake                                                          *)
(*                                                                         *)
(* EfcpChannel::initiator and EfcpChannel::responder, each followed from   *)
(* one await on channel.recv() to the next.  The channel below them hands  *)
(* every packet over once and in order.  The noise session is followed by  *)
(* the number of handshake messages it has written or read.  packet.rs     *)
(* puts an Accept on the wire without a protocol while                     *)
(* Negotiation::message takes Accept(protocol): which protocol message()   *)
(* is handed for a received Accept is left open.                           *)
(***************************************************************************)

\* the addresses a responder can observe
Addrs == {"addr1", "addr2"}

\* Option::None where an address is expected
NoAddr == "noaddr"

\* messages of the XK1sig pattern: -> e, <- e ee sig, -> s sig
HandshakeMessages == 3

\* HandshakePacket::new
HandshakePacket(negotiate, external_addr) ==
    [negotiate |-> negotiate, external_addr |-> external_addr]

\* HandshakePacket::to_bytes without `bytes[0] |= 0xf0`
ToBytes_NoAddrFlag(p) ==
    [ty |-> CASE p.negotiate.ty = "None" -> 0
              [] p.negotiate.ty = "Propose" -> 1
              [] p.negotiate.ty = "Accept" -> 2
              [] p.negotiate.ty = "Fail" -> 3,
     protocol |-> IF p.negotiate.ty = "Propose"
                  THEN p.negotiate.protocol ELSE NoProto,
     contains_addr |-> FALSE,
     addr |-> p.external_addr]

\* HandshakePacket::to_bytes: the type nibble, the protocol of a Propose,
\* the address and the flag that announces it
ToBytes(p) ==
    [ty |-> CASE p.negotiate.ty = "None" -> 0
              [] p.negotiate.ty = "Propose" -> 1
              [] p.negotiate.ty = "Accept" -> 2
              [] p.negotiate.ty = "Fail" -> 3,
     protocol |-> IF p.negotiate.ty = "Propose"
                  THEN p.negotiate.protocol ELSE NoProto,
     contains_addr |-> p.external_addr # NoAddr,
     addr |-> p.external_addr]

\* HandshakePacket::from_bytes
FromBytes(b) ==
    [negotiate |-> CASE b.ty = 0 -> NoMessage
                     [] b.ty = 1 -> [ty |-> "Propose", protocol |-> b.protocol]
                     [] b.ty = 2 -> [ty |-> "Accept", protocol |-> NoProto]
                     [] b.ty = 3 -> [ty |-> "Fail", protocol |-> NoProto],
     external_addr |-> IF b.contains_addr THEN b.addr ELSE NoAddr]

\* the Messages negotiate.message may be handed for the decoded Message m
Handed(m) ==
    IF m.ty = "Accept"
    THEN {[ty |-> "Accept", protocol |-> p] : p \in Protocols \cup {NoProto}}
    ELSE {m}

\* msg.negotiate().as_ref().map(|msg| negotiate.message(msg)).unwrap_or(Ok(None))
Feed(n, m) ==
    IF m = NoMessage THEN [n |-> n, msg |-> NoMessage, err |-> FALSE]
    ELSE NegMessage(n, m)

\* the end of initiator and responder: negotiate.into_protocol() and the
\* value returned
Finish(st) ==
    IF ~st.negotiate.finished
    THEN [st EXCEPT !.pc = "done", !.result = "panic"]
    ELSE IF IntoProtocol(st.negotiate) = NoProto
    THEN [st EXCEPT !.pc = "done", !.result = "Negotiation"]
    ELSE [st EXCEPT !.pc = "done", !.result = "Ok",
                    !.protocol = IntoProtocol(st.negotiate)]

\* initiator: `while !negotiate.is_finished()` up to its channel.recv()
IniLoop(st) ==
    IF st.negotiate.finished THEN Finish(st)
    ELSE [st EXCEPT !.pc = "post_recv"]

\* initiator after the handshake loop, without the test of external_addr
IniAfterHandshake_NoAddrTest(st) == IniLoop(st)

\* initiator after the handshake loop: the test of external_addr, then the
\* rest of the negotiation
IniAfterHandshake(st) ==
    IF st.external_addr = NoAddr
    THEN [st EXCEPT !.pc = "done", !.result = "ExternalAddr"]
    ELSE IniLoop(st)

\* the locals of initiator or responder before the first channel.recv()
Locals(pc, negotiate, next_neg, external_addr) ==
    [pc |-> pc, negotiate |-> negotiate, next_neg |-> next_neg,
     external_addr |-> external_addr, sess |-> 0, result |-> "none",
     protocol |-> NoProto]

EfcpInit ==
    /\ hs_peer \in {"efcp", "other"}
    /\ hs_addr \in Addrs
    /\ \E l1 \in ProtoLists :
          ini = Locals("write", Initiate(NegotiationNew(l1)).n,
                       Initiate(NegotiationNew(l1)).msg, NoAddr)
    /\ \E l2 \in ProtoLists :
          /\ hs_peer = "other" => l2 = <<>>
          /\ rsp = Locals("read", NegotiationNew(l2), NoMessage, hs_addr)
    /\ hs_to_i = <<>>
    /\ hs_to_r = <<>>
    /\ hs_sent = <<>>

\* the handshake variables while another subsystem is examined
EfcpIdle ==
    /\ hs_peer = "efcp"
    /\ hs_addr = "addr1"
    /\ ini = Locals("done", NegotiationNew(<<>>), NoMessage, NoAddr)
    /\ rsp = Locals("done", NegotiationNew(<<>>), NoMessage, NoAddr)
    /\ hs_to_i = <<>>
    /\ hs_to_r = <<>>
    /\ hs_sent = <<>>

\* initiator: build the HandshakePacket, session.write_message,
\* channel.send, and on to the next channel.recv()
IniWrite ==
    /\ ini.pc = "write"
    /\ hs_to_r' = Append(hs_to_r, ToBytes(HandshakePacket(ini.next_neg, NoAddr)))
    /\ LET st == [ini EXCEPT !.next_neg = NoMessage, !.sess = @ + 1] IN
       ini' = IF st.sess = HandshakeMessages
              THEN IniAfterHandshake(st)
              ELSE [st EXCEPT !.pc = "read"]
    /\ UNCHANGED <<hs_peer, hs_addr, rsp, hs_to_i, hs_sent>>
    /\ UNCHANGED notEfcp

\* initiator: channel.recv() in the handshake loop returns
IniRead ==
    /\ ini.pc = "read"
    /\ hs_to_i # <<>>
    /\ hs_to_i' = Tail(hs_to_i)
    /\ LET msg == FromBytes(Head(hs_to_i))
           st == [ini EXCEPT !.sess = @ + 1,
                             !.external_addr = IF msg.external_addr # NoAddr
                                               THEN msg.external_addr ELSE @]
       IN \E m \in Handed(msg.negotiate) :
             LET r == Feed(st.negotiate, m) IN
             ini' = IF r.err
                    THEN [st EXCEPT !.negotiate = r.n, !.pc = "done",
                                    !.result = "ProtocolError"]
                    ELSE [st EXCEPT !.negotiate = r.n, !.next_neg = r.msg,
                                    !.pc = "write"]
    /\ UNCHANGED <<hs_peer, hs_addr, rsp, hs_to_r, hs_sent>>
    /\ UNCHANGED notEfcp

\* initiator: channel.recv() in the loop after the handshake returns
IniPostRecv ==
    /\ ini.pc = "post_recv"
    /\ hs_to_i # <<>>
    /\ hs_to_i' = Tail(hs_to_i)
    /\ LET msg == FromBytes(Head(hs_to_i)) IN
       \E m \in Handed(msg.negotiate) :
          LET r == Feed(ini.negotiate, m)
              st == [ini EXCEPT !.negotiate = r.n]
          IN
          IF r.err
          THEN /\ ini' = [st EXCEPT !.pc = "done", !.result = "ProtocolError"]
               /\ UNCHANGED hs_to_r
          ELSE IF r.msg = NoMessage
          THEN /\ ini' = Finish(st)
               /\ UNCHANGED hs_to_r
          ELSE /\ hs_to_r' = Append(hs_to_r,
                                    ToBytes(HandshakePacket(r.msg, NoAddr)))
               /\ ini' = IniLoop(st)
    /\ UNCHANGED <<hs_peer, hs_addr, rsp, hs_sent>>
    /\ UNCHANGED notEfcp

\* responder: `while let Some(msg) = next_neg.take()` up to its
\* channel.recv(): [st |-> the locals afterwards, out |-> the packets sent]
RspLoop(st) ==
    IF st.next_neg = NoMessage THEN [st |-> Finish(st), out |-> <<>>]
    ELSE LET pkt == ToBytes(HandshakePacket(st.next_neg, st.external_addr))
             st1 == [st EXCEPT !.next_neg = NoMessage, !.external_addr = NoAddr]
         IN [st |-> IF st1.negotiate.finished THEN Finish(st1)
                    ELSE [st1 EXCEPT !.pc = "post_recv"],
             out |-> <<pkt>>]

\* responder after negotiate.message in the handshake loop: leave the loop
\* when the session is finished, else answer with external_addr.take()
RspAnswer(st) ==
    IF st.sess = HandshakeMessages THEN RspLoop(st)
    ELSE [st |-> [st EXCEPT !.next_neg = NoMessage, !.external_addr = NoAddr,
                            !.sess = @ + 1, !.pc = "read"],
          out |-> <<ToBytes(HandshakePacket(st.next_neg, st.external_addr))>>]

\* responder: channel.recv() in the handshake loop returns
RspRead ==
    /\ hs_peer = "efcp"
    /\ rsp.pc = "read"
    /\ hs_to_r # <<>>
    /\ hs_to_r' = Tail(hs_to_r)
    /\ LET msg == FromBytes(Head(hs_to_r))
           st == [rsp EXCEPT !.sess = @ + 1]
       IN \E m \in Handed(msg.negotiate) :
             LET r == Feed(st.negotiate, m)
                 st1 == [st EXCEPT !.negotiate = r.n, !.next_neg = r.msg]
             IN
             IF r.err
             THEN /\ rsp' = [st1 EXCEPT !.pc = "done", !.result = "ProtocolError"]
                  /\ UNCHANGED <<hs_to_i, hs_sent>>
             ELSE /\ rsp' = RspAnswer(st1).st
                  /\ hs_to_i' = hs_to_i \o RspAnswer(st1).out
                  /\ hs_sent' = hs_sent \o RspAnswer(st1).out
    /\ UNCHANGED <<hs_peer, hs_addr, ini>>
    /\ UNCHANGED notEfcp

\* responder: channel.recv() in the loop after the handshake returns
RspPostRecv ==
    /\ hs_peer = "efcp"
    /\ rsp.pc = "post_recv"
    /\ hs_to_r # <<>>
    /\ hs_to_r' = Tail(hs_to_r)
    /\ LET msg == FromBytes(Head(hs_to_r)) IN
       \E m \in Handed(msg.negotiate) :
          LET r == Feed(rsp.negotiate, m)
              st == [rsp EXCEPT !.negotiate = r.n, !.next_neg = r.msg]
          IN
          IF r.err
          THEN /\ rsp' = [st EXCEPT !.pc = "done", !.result = "ProtocolError"]
               /\ UNCHANGED <<hs_to_i, hs_sent>>
          ELSE /\ rsp' = RspLoop(st).st
               /\ hs_to_i' = hs_to_i \o RspLoop(st).out
               /\ hs_sent' = hs_sent \o RspLoop(st).out
    /\ UNCHANGED <<hs_peer, hs_addr, ini>>
    /\ UNCHANGED notEfcp

\* every HandshakePacket from_bytes accepts
HandshakePackets ==
    {HandshakePacket(n, a) :
        n \in {NoMessage, [ty |-> "Accept", protocol |-> NoProto],
               [ty |-> "Fail", protocol |-> NoProto]}
              \cup {[ty |-> "Propose", protocol |-> p] : p \in Protocols},
        a \in Addrs \cup {NoAddr}}

\* a responder that is another program reads a packet and answers with any
\* well-formed packet, or not at all
OtherRespond ==
    /\ hs_peer = "other"
    /\ hs_to_r # <<>>
    /\ hs_to_r' = Tail(hs_to_r)
    /\ \E reply \in {<<>>} \cup {<<ToBytes(p)>> : p \in HandshakePackets} :
          /\ hs_to_i' = hs_to_i \o reply
          /\ hs_sent' = hs_sent \o reply
    /\ UNCHANGED <<hs_peer, hs_addr, ini, rsp>>
    /\ UNCHANGED notEfcp

EfcpNext ==
    \/ IniWrite
    \/ IniRead
    \/ IniPostRecv
    \/ RspRead
    \/ RspPostRecv
    \/ OtherRespond

----------------------------------------------------------------------------
(***************************************************************************)
(* Disco                                                                   *)
(*                                                                         *)
(* DiscoChannel::send takes its nonce with one atomic fetch_add and hands  *)
(* the packet to the channel below at its await; sends of several tasks    *)
(* reach the channel below in any order.                                   *)
(***************************************************************************)

RECURSIVE Pow2(_)
Pow2(n) == IF n = 0 THEN 1 ELSE 2 * Pow2(n - 1)

\* AtomicU64::fetch_add: the value afterwards, wrapping at the counter width
FetchAdd(x, d) == (x + d) % Pow2(NonceBits)

DiscoInit ==
    /\ disco_nonce = 0
    /\ disco_sends = <<>>
    /\ disco_wire = <<>>

\* the Disco variables while another subsystem is examined
DiscoIdle ==
    /\ disco_nonce = 0
    /\ disco_sends = <<>>
    /\ disco_wire = <<>>

\* DiscoChannel::send up to its await: fetch_add, set_nonce, write_message,
\* set_tag
DiscoSend ==
    /\ Len(disco_sends) < MaxDiscoSend
    /\ \E payload \in {"ping", "pong"} :
          disco_sends' = Append(disco_sends,
                                [nonce |-> disco_nonce, payload |-> payload,
                                 pc |-> "await"])
    /\ disco_nonce' = FetchAdd(disco_nonce, 1)
    /\ UNCHANGED disco_wire
    /\ UNCHANGED notDisco

\* DiscoChannel::send: self.channel.send(packet.into_packet()).await
DiscoSendDone ==
    /\ \E i \in 1..Len(disco_sends) :
          /\ disco_sends[i].pc = "await"
          /\ disco_sends' = [disco_sends EXCEPT ![i].pc = "done"]
          /\ disco_wire' = Append(disco_wire,
                                  [nonce |-> disco_sends[i].nonce,
                                   payload |-> disco_sends[i].payload])
    /\ UNCHANGED disco_nonce
    /\ UNCHANGED notDisco

DiscoNext ==
    \/ DiscoSend
    \/ DiscoSendDone

----------------------------------------------------------------------------
(***************************************************************************)
(* Packets                                                                 *)
(*                                                                         *)
(* A packet of every layer is a view of one buffer: the bytes written so   *)
(* far and the capacity reserved.  DtpPacket is the buffer itself with a   *)
(* header of one byte; DtcpPacket wraps a DtpPacket (dtcp/src/packet.rs);  *)
(* DiscoPacket<P> is followed with P = DtpPacket.  What is below DTP is    *)
(* the datagram: DtpPacket::bytes() on the way down, and                   *)
(* uninitialized/set_len/check on the way up.  The ecn bit is left out.    *)
(***************************************************************************)

Layers == {"dtp", "dtcp", "disco"}

NoPacket == [bytes |-> <<>>, cap |-> None]

Zeros(k) == [i \in 1..k |-> 0]

\* &s[k..]
SliceFrom(s, k) == SubSeq(s, k + 1, Len(s))

\* BytesMut::with_capacity
WithCapacity(n) == [bytes |-> <<>>, cap |-> n]

\* BufMut::put_u8, put_u16_be, put_u64_be, put_slice: the bytes are appended
PutSlice(p, bs) == [p EXCEPT !.bytes = @ \o bs]

\* BufMut::remaining_mut
RemainingMut(p) == p.cap - Len(p.bytes)

\* a variant of DtpPacket::new that writes no header byte
DtpNew_NoHeader(n) == WithCapacity(n + 1)

\* DtpPacket::new
DtpNew(n) == PutSlice(WithCapacity(n + 1), <<0>>)

\* DtpPacket::check
DtpCheck(p) == Len(p.bytes) >= 1

\* DtpPacket::payload
DtpPayload(p) == SliceFrom(p.bytes, 1)

\* DtcpPacket::new
DtcpNew(n) == PutSlice(PutSlice(DtpNew(n + 3), <<0>>), <<0, 0>>)

\* DtcpPacket::raw_type
RawType(p) == DtpPayload(p)[1] \div 16

\* DtcpPacket::parse succeeds
DtcpParse(p) ==
    /\ Len(DtpPayload(p)) >= 3
    /\ RawType(p) < 2

\* DtcpPacket::payload
DtcpPayload(p) == SliceFrom(DtpPayload(p), 3)

\* DiscoPacket::new
DiscoPacketNew(n) ==
    PutSlice(PutSlice(DtpNew(n + NonceLen + TagLen), Zeros(NonceLen)),
             Zeros(TagLen))

\* DiscoPacket::check
DiscoCheck(p) == Len(DtpPayload(p)) >= NonceLen

\* DiscoPacket::payload
DiscoPayload(p) == SliceFrom(DtpPayload(p), NonceLen + TagLen)

\* new(payload_len) of a layer
New(layer, n) ==
    CASE layer = "dtp" -> DtpNew(n)
      [] layer = "dtcp" -> DtcpNew(n)
      [] layer = "disco" -> DiscoPacketNew(n)

\* parse of a layer succeeds on the packet of the layer below
Parse(layer, p) ==
    CASE layer = "dtp" -> DtpCheck(p)
      [] layer = "dtcp" -> DtcpParse(p)
      [] layer = "disco" -> DiscoCheck(p)

\* payload() of a layer
Payload(layer, p) ==
    CASE layer = "dtp" -> DtpPayload(p)
      [] layer = "dtcp" -> DtcpPayload(p)
      [] layer = "disco" -> DiscoPayload(p)

\* into_packet of a layer (DtpPacket: bytes()): the same buffer
IntoPacket(p) == p

\* first bytes of a received datagram: channel, then type and flags
WireBytes == {0, 1, 16, 32}

\* the datagrams the channel below may hand up
WirePackets ==
    { head \o Zeros(k) :
        head \in {<<>>} \cup { <<a>> : a \in WireBytes }
                        \cup { <<a, b>> : a \in {0}, b \in WireBytes },
        k \in 0..MaxWireTail }

PktInit ==
    /\ pkt_layer \in Layers
    /\ pkt_n = 0
    /\ pkt_puts = 0
    /\ pkt_from = "none"
    /\ pkt_upper = NoPacket
    /\ pkt_lower = NoPacket
    /\ pkt_res = "none"

\* the packet variables while another subsystem is examined
PktIdle ==
    /\ pkt_layer = "dtp"
    /\ pkt_n = 0
    /\ pkt_puts = 0
    /\ pkt_from = "none"
    /\ pkt_upper = NoPacket
    /\ pkt_lower = NoPacket
    /\ pkt_res = "none"

\* new(payload_len)
PktNew ==
    /\ pkt_from = "none"
    /\ \E n \in 0..MaxPayloadLen :
          /\ pkt_n' = n
          /\ pkt_upper' = New(pkt_layer, n)
    /\ pkt_puts' = 0
    /\ pkt_from' = "new"
    /\ UNCHANGED <<pkt_layer, pkt_lower, pkt_res>>
    /\ UNCHANGED notPkt

\* packet.put(..) of one byte while the packet has room
PktPut ==
    /\ pkt_from = "new"
    /\ pkt_res = "none"
    /\ pkt_upper /= NoPacket
    /\ RemainingMut(pkt_upper) > 0
    /\ \E b \in {0, 1} : pkt_upper' = PutSlice(pkt_upper, <<b>>)
    /\ pkt_puts' = pkt_puts + 1
    /\ UNCHANGED <<pkt_layer, pkt_n, pkt_from, pkt_lower, pkt_res>>
    /\ UNCHANGED notPkt

\* packet.into_packet()
PktIntoPacket ==
    /\ pkt_upper /= NoPacket
    /\ pkt_lower' = IntoPacket(pkt_upper)
    /\ pkt_upper' = NoPacket
    /\ UNCHANGED <<pkt_layer, pkt_n, pkt_puts, pkt_from, pkt_res>>
    /\ UNCHANGED notPkt

\* the channel below hands a packet up; what DTP hands up has passed
\* DtpPacket::check
PktRecv ==
    /\ pkt_from = "none"
    /\ \E w \in WirePackets :
          /\ pkt_layer /= "dtp" => DtpCheck([bytes |-> w, cap |-> MAX_PACKET_LEN])
          /\ pkt_lower' = [bytes |-> w, cap |-> MAX_PACKET_LEN]
    /\ pkt_from' = "wire"
    /\ UNCHANGED <<pkt_layer, pkt_n, pkt_puts, pkt_upper, pkt_res>>
    /\ UNCHANGED notPkt

\* parse(packet)
PktParse ==
    /\ pkt_lower /= NoPacket
    /\ IF Parse(pkt_layer, pkt_lower)
       THEN /\ pkt_upper' = pkt_lower
            /\ pkt_res' = "Ok"
       ELSE /\ pkt_upper' = NoPacket
            /\ pkt_res' = "Err"
    /\ pkt_lower' = NoPacket
    /\ UNCHANGED <<pkt_layer, pkt_n, pkt_puts, pkt_from>>
    /\ UNCHANGED notPkt

\* the packet is dropped
PktDrop ==
    /\ pkt_from /= "none"
    /\ pkt_n' = 0
    /\ pkt_puts' = 0
    /\ pkt_from' = "none"
    /\ pkt_upper' = NoPacket
    /\ pkt_lower' = NoPacket
    /\ pkt_res' = "none"
    /\ UNCHANGED pkt_layer
    /\ UNCHANGED notPkt

PktNext ==
    \/ PktNew
    \/ PktPut
    \/ PktIntoPacket
    \/ PktRecv
    \/ PktParse
    \/ PktDrop

----------------------------------------------------------------------------
(***************************************************************************)
(* One DtcpChannel                                                         *)
(*                                                                         *)
(* A single DtcpChannel that both sends and receives: seq_num, set_drf,    *)
(* txs, queue and timedout are its sending side and last_ack its           *)
(* receiving side.  What its channel.recv() returns is up to the peer and  *)
(* the channel below: any DTP packet, or an error.  The channel below may  *)
(* also answer a send with an error.                                       *)
(***************************************************************************)

\* DtcpPacket::flag0
Flag0(p) == DtpPayload(p)[1] % 2 = 1

\* DtcpPacket::seq_num
SeqNumOf(p) == DtpPayload(p)[2] * 256 + DtpPayload(p)[3]

\* ---- DiscoChannel::recv on what the channel below hands up ----

\* DiscoPacket::nonce reads payload()[..8] within the packet
NonceInBounds(p) == Len(DtpPayload(p)) >= NonceLen

\* DiscoPacket::tag reads payload()[8..(8 + TAG_LEN)] within the packet
TagInBounds(p) == Len(DtpPayload(p)) >= NonceLen + TagLen

\* DiscoChannel::recv once self.channel.recv() has returned packet p; auth
\* is whether read_message accepts nonce, ciphertext and tag
DiscoRecvOf(p, auth) ==
    IF ~DiscoCheck(p) THEN "Err"
    ELSE IF ~NonceInBounds(p) THEN "panic"
    ELSE IF ~TagInBounds(p) THEN "panic"
    ELSE IF auth THEN "Ok" ELSE "Err"

\* a DiscoChannel over the channel below, no packet in hand
DiscoRecvInit ==
    /\ pkt_layer = "disco"
    /\ pkt_n = 0
    /\ pkt_puts = 0
    /\ pkt_from = "none"
    /\ pkt_upper = NoPacket
    /\ pkt_lower = NoPacket
    /\ pkt_res = "none"

\* DiscoChannel::recv
DiscoRecv ==
    /\ pkt_layer = "disco"
    /\ pkt_from = "wire"
    /\ pkt_res = "none"
    /\ \E auth \in BOOLEAN :
          /\ pkt_res' = DiscoRecvOf(pkt_lower, auth)
          /\ pkt_upper' = IF pkt_res' = "Ok" THEN pkt_lower ELSE NoPacket
    /\ UNCHANGED <<pkt_layer, pkt_n, pkt_puts, pkt_from, pkt_lower>>
    /\ UNCHANGED notPkt

DiscoRecvNext == PktRecv \/ DiscoRecv \/ PktDrop

\* ---- the DTCP header, written and read ----

\* DtcpType
DtcpTypes ==
    {[kind |-> "Transfer", drf |-> FALSE], [kind |-> "Transfer", drf |-> TRUE],
     [kind |-> "Control", drf |-> FALSE]}

\* DtcpPacket::ty; "unreachable" is the unreachable!() arm
Ty(p) ==
    CASE RawType(p) = 0 -> [kind |-> "Transfer", drf |-> Flag0(p)]
      [] RawType(p) = 1 -> [kind |-> "Control", drf |-> FALSE]
      [] OTHER -> [kind |-> "unreachable", drf |-> FALSE]

\* DtcpPacket::set_ty
SetTy(p, ty) ==
    [p EXCEPT !.bytes[2] =
        IF ty.kind = "Transfer" THEN (IF ty.drf THEN 1 ELSE 0) ELSE 16]

\* DtcpPacket::set_seq_num, big endian
SetSeqNum(p, sn) ==
    [p EXCEPT !.bytes[3] = sn \div 256, !.bytes[4] = sn % 256]

\* the sequence numbers written, both bytes exercised
HdrSeqNums == {0, 1, 255, 256, 258, SeqMod - 1}

\* first header bytes a datagram may carry: the three defined ones, flag
\* bits 1..3 set, flag bit 0 on a Control, and types 2, 3 and 15
HdrBytes == {0, 1, 16, 2, 4, 8, 3, 17, 18, 32, 48, 240}

\* DTP packets that carry a header of HdrBytes, and shorter ones
HdrPackets ==
    { [bytes |-> w, cap |-> MAX_PACKET_LEN] :
        w \in { <<0, b, hi, 1>> \o Zeros(k) :
                  b \in HdrBytes, hi \in {0, 1}, k \in 0..1 }
              \cup { <<0, b>> : b \in HdrBytes } \cup {<<0>>, <<0, 0, 0>>} }

\* DtcpPacket::new, set_ty, set_seq_num
HdrBuild ==
    /\ pkt_layer = "dtcp"
    /\ pkt_from = "none"
    /\ \E n \in 0..MaxPayloadLen, ty \in DtcpTypes, sn \in HdrSeqNums :
          /\ pkt_n' = n
          /\ pkt_upper' = SetSeqNum(SetTy(DtcpNew(n), ty), sn)
    /\ pkt_puts' = 0
    /\ pkt_from' = "new"
    /\ UNCHANGED <<pkt_layer, pkt_lower, pkt_res>>
    /\ UNCHANGED notPkt

\* the DTP channel hands a packet up
HdrRecv ==
    /\ pkt_layer = "dtcp"
    /\ pkt_from = "none"
    /\ \E w \in HdrPackets : pkt_lower' = w
    /\ pkt_from' = "wire"
    /\ UNCHANGED <<pkt_layer, pkt_n, pkt_puts, pkt_upper, pkt_res>>
    /\ UNCHANGED notPkt

\* the DTCP layer with no packet in hand
HdrInit ==
    /\ pkt_layer = "dtcp"
    /\ pkt_n = 0
    /\ pkt_puts = 0
    /\ pkt_from = "none"
    /\ pkt_upper = NoPacket
    /\ pkt_lower = NoPacket
    /\ pkt_res = "none"

HdrNext == HdrBuild \/ HdrRecv \/ PktIntoPacket \/ PktParse \/ PktDrop

\* the DTP packets channel.recv() may return: channel byte, DTCP header
\* (type and flags, seq_num), and packets too short for a DTCP header
ChanPackets ==
    { [bytes |-> w, cap |-> MAX_PACKET_LEN] :
        w \in { <<0, ty, 0, sn>> : ty \in WireBytes, sn \in 0..MaxSend }
              \cup {<<0>>, <<0, 16>>, <<0, 0, 0>>} }

\* what channel.recv() returns: Ok(packet) or Err
ChanInputs ==
    { [res |-> "Ok", packet |-> p] : p \in ChanPackets }
        \cup {[res |-> "Err", packet |-> NoPacket]}

ChanInit ==
    /\ DtcpInit
    /\ recv_res = "none"
    /\ ack_out = None
    /\ chan_err = FALSE
    /\ idle = 0

\* the variables of the single channel while another subsystem is examined
ChanIdle ==
    /\ recv_res = "none"
    /\ ack_out = None
    /\ chan_err = FALSE
    /\ idle = 0

\* DtcpChannel::send / send_transfer
ChanSend ==
    /\ seq_num < MaxSend
    /\ set_drf' = FALSE
    /\ seq_num' = (seq_num + 1) % SeqMod
    /\ RetransmissionSend(seq_num, set_drf)
    /\ idle' = 0
    /\ UNCHANGED <<max_rtx, timedout, wire_ab, wire_ba, last_ack,
                   delivered, arrived>>
    /\ UNCHANGED <<recv_res, ack_out, chan_err>>
    /\ UNCHANGED notChan

\* Transmission::send_all: a send; sender.send(..).await.ok() discards the
\* error the channel below may return
ChanTaskSend(i) ==
    /\ txs[i].pc = "send"
    /\ \E lost \in BOOLEAN : \E err \in BOOLEAN :
          /\ err => (lost /\ txs[i].tx_left > 0)
          /\ TransmissionSend(i, lost)
          /\ chan_err' = (chan_err \/ err)
    /\ UNCHANGED <<max_rtx, set_drf, seq_num, queue, wire_ba, last_ack,
                   delivered, arrived, send_res>>
    /\ UNCHANGED <<recv_res, ack_out, idle>>
    /\ UNCHANGED notChan

\* Transmission::send_all: one pass over the tests at the top of the loop
ChanTaskCheck(i) ==
    /\ txs[i].pc = "check"
    /\ IF txs[i].acked \/ timedout
       THEN txs' = [txs EXCEPT ![i].pc = "done"]
       ELSE /\ ~TimerPending(txs[i])
            /\ txs' = [txs EXCEPT ![i].pc = "send"]
    /\ UNCHANGED <<max_rtx, set_drf, seq_num, queue, timedout, wire_ab,
                   wire_ba, last_ack, delivered, arrived, send_res>>
    /\ UNCHANGED chanVars
    /\ UNCHANGED notChan

ChanTask == \E i \in 1..Len(txs) : ChanTaskSend(i) \/ ChanTaskCheck(i)

\* the clock advances by one tick
ChanTick ==
    /\ \/ \E i \in 1..Len(txs) : txs[i].pc # "done" /\ TimerPending(txs[i])
       \/ idle <= KeepAlive
    /\ txs' = [i \in 1..Len(txs) |->
                 IF txs[i].pc # "done" /\ TimerPending(txs[i])
                 THEN [txs[i] EXCEPT !.since_tx = @ + 1] ELSE txs[i]]
    /\ idle' = IF idle <= KeepAlive THEN idle + 1 ELSE idle
    /\ UNCHANGED <<max_rtx, set_drf, seq_num, queue, timedout, wire_ab,
                   wire_ba, last_ack, delivered, arrived, send_res>>
    /\ UNCHANGED <<recv_res, ack_out, chan_err>>
    /\ UNCHANGED notChan

\* DtcpChannel::send_ack: the error of channel.send is discarded
SendAck(sn) == ack_out' = sn

\* DtcpChannel::recv: one pass of its loop, channel.recv() returning inp
RecvPass(inp) ==
    IF inp.res = "Err"
    THEN /\ recv_res' = "Err_io"
         /\ UNCHANGED <<txs, queue, last_ack, ack_out>>
    ELSE IF ~DtcpParse(inp.packet)
    THEN /\ recv_res' = "Err_invalid"
         /\ UNCHANGED <<txs, queue, last_ack, ack_out>>
    ELSE IF RawType(inp.packet) = 1
    THEN /\ RetransmissionAck(SeqNumOf(inp.packet))
         /\ recv_res' = "loop"
         /\ UNCHANGED <<last_ack, ack_out>>
    ELSE IF Flag0(inp.packet)
    THEN /\ last_ack' = SeqNumOf(inp.packet)
         /\ SendAck(SeqNumOf(inp.packet))
         /\ recv_res' = "Ok"
         /\ UNCHANGED <<txs, queue>>
    ELSE IF SeqNumOf(inp.packet) = last_ack + 1
    THEN /\ last_ack' = FetchMax(last_ack, SeqNumOf(inp.packet))
         /\ SendAck(SeqNumOf(inp.packet))
         /\ recv_res' = "Ok"
         /\ UNCHANGED <<txs, queue>>
    ELSE /\ recv_res' = "loop"
         /\ UNCHANGED <<txs, queue, last_ack, ack_out>>

\* ---- DtcpChannel::recv's in-order test at every value of last_ack ----

\* `self.last_ack.load() + 1` on a u16: at 65535 the sum leaves u16, where
\* a build with overflow checks panics and one without wraps to 0
LastAckSucc(x) ==
    IF x + 1 >= SeqMod
    THEN {[panic |-> TRUE, val |-> 0], [panic |-> FALSE, val |-> (x + 1) % SeqMod]}
    ELSE {[panic |-> FALSE, val |-> x + 1]}

\* a receiving channel whose last_ack is any u16: the DRF arm of recv stores
\* whatever seq_num the Transfer carries
SuccInit ==
    /\ max_rtx = 0
    /\ set_drf = TRUE
    /\ seq_num = 0
    /\ txs = <<>>
    /\ queue = <<>>
    /\ timedout = FALSE
    /\ wire_ab = {}
    /\ wire_ba = {}
    /\ last_ack \in 0..(SeqMod - 1)
    /\ delivered = <<>>
    /\ arrived = {}
    /\ send_res = "none"
    /\ recv_res = "none"
    /\ ack_out = None
    /\ chan_err = FALSE
    /\ idle = 0

\* DtcpChannel::recv reads a non-DRF Transfer: the one the sender's wrapping
\* counter produces after last_ack, or a copy of the one received last
SuccRecv ==
    /\ arrived = {}
    /\ \E sn \in {(last_ack + 1) % SeqMod, last_ack} :
       \E r \in LastAckSucc(last_ack) :
          /\ arrived' = {sn}
          /\ IF r.panic
             THEN /\ recv_res' = "panic"
                  /\ UNCHANGED <<last_ack, ack_out, delivered>>
             ELSE IF sn = r.val
             THEN /\ last_ack' = FetchMax(last_ack, sn)
                  /\ SendAck(sn)
                  /\ delivered' = <<[sn |-> sn, drf |-> FALSE]>>
                  /\ recv_res' = "Ok"
             ELSE /\ recv_res' = "loop"
                  /\ UNCHANGED <<last_ack, ack_out, delivered>>
    /\ UNCHANGED <<max_rtx, set_drf, seq_num, txs, queue, timedout, wire_ab,
                   wire_ba, send_res>>
    /\ UNCHANGED <<chan_err, idle>>
    /\ UNCHANGED notChan

SuccNext == SuccRecv

\* DtcpChannel::recv reads inp from the channel below
ChanRecvOf(inp) ==
    /\ RecvPass(inp)
    /\ UNCHANGED <<max_rtx, set_drf, seq_num, timedout, wire_ab, wire_ba,
                   delivered, arrived, send_res>>
    /\ UNCHANGED <<chan_err, idle>>
    /\ UNCHANGED notChan

ChanRecv == \E inp \in ChanInputs : ChanRecvOf(inp)

\* channel.recv() returns a packet that parses as a Control packet
IsControl(inp) ==
    /\ inp.res = "Ok"
    /\ DtcpParse(inp.packet)
    /\ RawType(inp.packet) = 1

\* DtcpChannel::recv while the peer sends nothing but Control packets
CtlRecv == \E inp \in ChanInputs : IsControl(inp) /\ ChanRecvOf(inp)

\* a channel that sends Transfers to a peer that answers with Control
\* packets of any seq_num
CtlNext ==
    \/ DtcpSend
    \/ DtcpTask
    \/ Tick
    \/ CtlRecv

ChanNext ==
    \/ ChanSend
    \/ ChanTask
    \/ ChanTick
    \/ ChanRecv

----------------------------------------------------------------------------
(***************************************************************************)
(* DTCP sequence numbers                                                   *)
(*                                                                         *)
(* The sending side of a DtcpChannel with its seq_num counter reduced to   *)
(* SeqBits bits, so that the counter wraps within a few sends.  Acks of    *)
(* any seq_num arrive at any time.                                         *)
(***************************************************************************)

\* AtomicCell<u16>::fetch_add: the value afterwards, at the reduced width
SeqAdd(x, d) == (x + d) % Pow2(SeqBits)

\* DtcpChannel::send / send_transfer
WrapSend ==
    /\ Len(txs) < MaxWrapSend
    /\ set_drf' = FALSE
    /\ seq_num' = SeqAdd(seq_num, 1)
    /\ RetransmissionSend(seq_num, set_drf)
    /\ UNCHANGED <<max_rtx, timedout, wire_ab, wire_ba, last_ack,
                   delivered, arrived>>
    /\ UNCHANGED notDtcp

\* DtcpChannel::recv reads a Control packet: Retransmission::ack
WrapAck ==
    /\ \E k \in 0..(Pow2(SeqBits) - 1) : RetransmissionAck(k)
    /\ UNCHANGED <<max_rtx, set_drf, seq_num, timedout, wire_ab, wire_ba,
                   last_ack, delivered, arrived, send_res>>
    /\ UNCHANGED notDtcp

WrapNext ==
    \/ WrapSend
    \/ WrapAck
    \/ DtcpTask
    \/ Tick

(***************************************************************************)
(* DTP, lock by lock                                                       *)
(*                                                                         *)
(* Threads of the application inside InnerDtpSocket at the same time, each *)
(* followed from one Mutex::lock() to the next.  A thread that panics      *)
(* while it holds a guard poisons the mutex, and lock().unwrap() on a      *)
(* poisoned mutex panics.  incoming is a lock-free ArrayQueue: a push or a *)
(* pop on it is one step.                                                  *)
(***************************************************************************)

Threads == 1..NumThreads

\* the three mutexes of InnerDtpSocket
Locks == {"channels", "channel_lookup", "connections"}

\* a thread outside of the socket
IdleThread == [op |-> "idle", pc |-> "idle", ch |-> 0, src |-> 0,
               conn_id |-> None, at |-> "none"]

\* whether thread t is inside poll_recv: it has a datagram in hand
InRecv(t) == thr[t].src # 0

\* the key thread t has called connection_id with
CidArg(t) == IF InRecv(t) THEN thr[t].src ELSE thr[t].ch

\* the guards thread t holds
Held(t) == {l \in Locks : lock[l] = t}

\* every position at which a thread calls lock(): the mutex, and where the
\* thread is once it holds the guard
LockSites ==
    [o_lock    |-> [mutex |-> "channels",       then |-> "o_in"],
     i_lock    |-> [mutex |-> "channels",       then |-> "i_in"],
     r_chlock  |-> [mutex |-> "channels",       then |-> "r_chk"],
     x_lock    |-> [mutex |-> "channels",       then |-> "x_rm"],
     cid_lock  |-> [mutex |-> "channel_lookup", then |-> "cid_get"],
     x_llock   |-> [mutex |-> "channel_lookup", then |-> "x_lrm"],
     cid_conns |-> [mutex |-> "connections",    then |-> "cid_ins"],
     c_lock    |-> [mutex |-> "connections",    then |-> "c_pop"],
     r_lock    |-> [mutex |-> "connections",    then |-> "r_push"],
     x_clock   |-> [mutex |-> "connections",    then |-> "x_crm"]]

\* the guards in S are dropped
Released(S) == [l \in Locks |-> IF l \in S THEN 0 ELSE lock[l]]

\* thread t panics: unwinding drops its guards and poisons their mutexes
Panic(t) ==
    /\ thr' = [thr EXCEPT ![t] = [IdleThread EXCEPT !.op = "panicked",
                                                    !.pc = "panicked",
                                                    !.at = thr[t].pc]]
    /\ poisoned' = poisoned \cup Held(t)
    /\ lock' = Released(Held(t))
    /\ panicked' = TRUE

\* thread t returns from its operation
Return(t) == thr' = [thr EXCEPT ![t] = IdleThread]

\* Mutex::lock().unwrap() at any of the lock sites
Lock(t) ==
    /\ ~panicked
    /\ thr[t].pc \in DOMAIN LockSites
    /\ LET site == LockSites[thr[t].pc] IN
       IF site.mutex \in poisoned
       THEN /\ lock[site.mutex] = 0
            /\ Panic(t)
       ELSE /\ lock[site.mutex] = 0
            /\ lock' = [lock EXCEPT ![site.mutex] = t]
            /\ thr' = [thr EXCEPT ![t].pc = site.then]
            /\ UNCHANGED <<poisoned, panicked>>
    /\ UNCHANGED <<max_conns, rx_buf_len, connections, channel_lookup,
                   channels, incoming, handles, last>>
    /\ UNCHANGED <<ops, arrivals>>
    /\ UNCHANGED notThr

\* where a thread is after poll_recv has returned Ready(Ok): back in the
\* loop of poll_incoming, or of poll_channel, which calls connection_id
AfterRecv(t) ==
    IF thr[t].op = "incoming"
    THEN [thr EXCEPT ![t].pc = "i_pop", ![t].src = 0, ![t].conn_id = None]
    ELSE [thr EXCEPT ![t].pc = "cid_lock", ![t].src = 0, ![t].conn_id = None]

\* where a thread is after connection_id has returned id: in poll_recv
\* (without a slot the datagram is dropped), in poll_channel or in close
AfterCid(t, id) ==
    IF InRecv(t)
    THEN IF id = None
         THEN AfterRecv(t)
         ELSE [thr EXCEPT ![t].pc = "r_lock", ![t].conn_id = id]
    ELSE IF thr[t].op = "channel"
    THEN IF id = None
         THEN [thr EXCEPT ![t].pc = "c_loop"]
         ELSE [thr EXCEPT ![t].pc = "c_lock", ![t].conn_id = id]
    ELSE [thr EXCEPT ![t].pc = "x_got", ![t].conn_id = id]

\* connection_id with the channel_lookup guard held: the key is known, or
\* the thread goes on to lock connections
CidGet(t) ==
    /\ ~panicked
    /\ thr[t].pc = "cid_get"
    /\ IF CidArg(t) \in DOMAIN channel_lookup
       THEN /\ thr' = AfterCid(t, channel_lookup[CidArg(t)])
            /\ lock' = Released({"channel_lookup"})
       ELSE /\ thr' = [thr EXCEPT ![t].pc = "cid_conns"]
            /\ UNCHANGED lock
    /\ UNCHANGED <<max_conns, rx_buf_len, connections, channel_lookup,
                   channels, incoming, handles, last, poisoned, panicked>>
    /\ UNCHANGED <<ops, arrivals>>
    /\ UNCHANGED notThr

\* connection_id with both guards held: a slot is taken if one is free
CidInsert(t) ==
    /\ ~panicked
    /\ thr[t].pc = "cid_ins"
    /\ IF Cardinality(DOMAIN connections) < max_conns
       THEN LET conn_id == Min((0..(max_conns - 1)) \ DOMAIN connections) IN
            /\ connections' = Put(connections, conn_id, <<>>)
            /\ channel_lookup' = Put(channel_lookup, CidArg(t), conn_id)
            /\ thr' = AfterCid(t, conn_id)
       ELSE /\ thr' = AfterCid(t, None)
            /\ UNCHANGED <<connections, channel_lookup>>
    /\ lock' = Released({"channel_lookup", "connections"})
    /\ UNCHANGED <<max_conns, rx_buf_len, channels, incoming, handles, last,
                   poisoned, panicked>>
    /\ UNCHANGED <<ops, arrivals>>
    /\ UNCHANGED notThr

\* the socket.poll_recv of InnerDtpSocket::poll_recv, in either loop:
\* Pending, an invalid datagram, or a datagram whose key is looked up
RecvDatagram(t) ==
    /\ ~panicked
    /\ thr[t].pc \in {"i_loop", "c_loop"}
    /\ \/ /\ Return(t)
          /\ UNCHANGED arrivals
       \/ /\ arrivals < MaxArrivals
          /\ arrivals' = arrivals + 1
          /\ \E src \in Keys :
                thr' = [thr EXCEPT ![t].src = src, ![t].pc = "cid_lock"]
    /\ UNCHANGED <<max_conns, rx_buf_len, connections, channel_lookup,
                   channels, incoming, handles, last, lock, poisoned,
                   panicked>>
    /\ UNCHANGED <<ops>>
    /\ UNCHANGED notThr

\* a poll_recv that keeps the connections guard after the push
RecvPush_KeepGuard(t) ==
    /\ ~panicked
    /\ thr[t].pc = "r_push"
    /\ IF thr[t].conn_id \in DOMAIN connections
       THEN /\ connections' = [connections EXCEPT ![thr[t].conn_id] =
                                  PushPacket(@, "ping")]
            /\ thr' = [thr EXCEPT ![t].pc = "r_chlock", ![t].conn_id = None]
            /\ UNCHANGED <<lock, poisoned, panicked>>
       ELSE /\ Panic(t)
            /\ UNCHANGED connections
    /\ UNCHANGED <<max_conns, rx_buf_len, channel_lookup, channels, incoming,
                   handles, last>>
    /\ UNCHANGED <<ops, arrivals>>
    /\ UNCHANGED notThr

\* poll_recv: connections.get_mut(conn_id).unwrap().push(payload).ok()
RecvPush(t) ==
    /\ ~panicked
    /\ thr[t].pc = "r_push"
    /\ IF thr[t].conn_id \in DOMAIN connections
       THEN /\ connections' = [connections EXCEPT ![thr[t].conn_id] =
                                  PushPacket(@, "ping")]
            /\ thr' = [thr EXCEPT ![t].pc = "r_chlock", ![t].conn_id = None]
            /\ lock' = Released({"connections"})
            /\ UNCHANGED <<poisoned, panicked>>
       ELSE /\ Panic(t)
            /\ UNCHANGED connections
    /\ UNCHANGED <<max_conns, rx_buf_len, channel_lookup, channels, incoming,
                   handles, last>>
    /\ UNCHANGED <<ops, arrivals>>
    /\ UNCHANGED notThr

\* poll_recv: !channels.contains(&channel), the guard dropped after it
RecvCheck(t) ==
    /\ ~panicked
    /\ thr[t].pc = "r_chk"
    /\ thr' = IF thr[t].src \in channels
              THEN AfterRecv(t)
              ELSE [thr EXCEPT ![t].pc = "r_inc"]
    /\ lock' = Released({"channels"})
    /\ UNCHANGED <<max_conns, rx_buf_len, connections, channel_lookup,
                   channels, incoming, handles, last, poisoned, panicked>>
    /\ UNCHANGED <<ops, arrivals>>
    /\ UNCHANGED notThr

\* poll_recv: incoming.push(channel).unwrap()
RecvAnnounce(t) ==
    /\ ~panicked
    /\ thr[t].pc = "r_inc"
    /\ IF Len(incoming) < max_conns
       THEN /\ incoming' = Append(incoming, thr[t].src)
            /\ thr' = AfterRecv(t)
            /\ UNCHANGED <<lock, poisoned, panicked>>
       ELSE /\ Panic(t)
            /\ UNCHANGED incoming
    /\ UNCHANGED <<max_conns, rx_buf_len, connections, channel_lookup,
                   channels, handles, last>>
    /\ UNCHANGED <<ops, arrivals>>
    /\ UNCHANGED notThr

\* Incoming::poll_next enters poll_incoming
IncomingStart(t) ==
    /\ ~panicked
    /\ thr[t].pc = "idle"
    /\ ops < MaxOps
    /\ ops' = ops + 1
    /\ NumHandles < MaxHandles
    /\ thr' = [thr EXCEPT ![t].op = "incoming", ![t].pc = "i_fast"]
    /\ UNCHANGED <<max_conns, rx_buf_len, connections, channel_lookup,
                   channels, incoming, handles, last, lock, poisoned,
                   panicked>>
    /\ UNCHANGED <<arrivals>>
    /\ UNCHANGED notThr

\* poll_incoming, first lines: a queued key is returned as it is
IncomingFast(t) ==
    /\ ~panicked
    /\ thr[t].pc = "i_fast"
    /\ IF incoming # <<>>
       THEN /\ incoming' = Tail(incoming)
            /\ handles' = [handles EXCEPT ![Head(incoming)] = @ + 1]
            /\ Return(t)
       ELSE /\ thr' = [thr EXCEPT ![t].pc = "i_loop"]
            /\ UNCHANGED <<incoming, handles>>
    /\ UNCHANGED <<max_conns, rx_buf_len, connections, channel_lookup,
                   channels, last, lock, poisoned, panicked>>
    /\ UNCHANGED <<ops, arrivals>>
    /\ UNCHANGED notThr

\* poll_incoming, loop: incoming.pop() after poll_recv
IncomingPop(t) ==
    /\ ~panicked
    /\ thr[t].pc = "i_pop"
    /\ IF incoming # <<>>
       THEN /\ incoming' = Tail(incoming)
            /\ thr' = [thr EXCEPT ![t].ch = Head(incoming),
                                  ![t].pc = "i_lock"]
       ELSE /\ thr' = [thr EXCEPT ![t].pc = "i_loop"]
            /\ UNCHANGED incoming
    /\ UNCHANGED <<max_conns, rx_buf_len, connections, channel_lookup,
                   channels, handles, last, lock, poisoned, panicked>>
    /\ UNCHANGED <<ops, arrivals>>
    /\ UNCHANGED notThr

\* poll_incoming, loop: the key is opened and returned unless it is open
IncomingInsert(t) ==
    /\ ~panicked
    /\ thr[t].pc = "i_in"
    /\ IF thr[t].ch \notin channels
       THEN /\ channels' = channels \cup {thr[t].ch}
            /\ handles' = [handles EXCEPT ![thr[t].ch] = @ + 1]
            /\ Return(t)
       ELSE /\ thr' = [thr EXCEPT ![t].pc = "i_loop"]
            /\ UNCHANGED <<channels, handles>>
    /\ lock' = Released({"channels"})
    /\ UNCHANGED <<max_conns, rx_buf_len, connections, channel_lookup,
                   incoming, last, poisoned, panicked>>
    /\ UNCHANGED <<ops, arrivals>>
    /\ UNCHANGED notThr

\* RecvFuture::poll enters poll_channel on a DtpChannel the application holds
ChannelStart(t) ==
    /\ ~panicked
    /\ thr[t].pc = "idle"
    /\ ops < MaxOps
    /\ ops' = ops + 1
    /\ \E ch \in Keys :
          /\ handles[ch] > 0
          /\ thr' = [thr EXCEPT ![t].op = "channel", ![t].ch = ch,
                                ![t].pc = "cid_lock"]
    /\ UNCHANGED <<max_conns, rx_buf_len, connections, channel_lookup,
                   channels, incoming, handles, last, lock, poisoned,
                   panicked>>
    /\ UNCHANGED <<arrivals>>
    /\ UNCHANGED notThr

\* poll_channel: conns.get(conn_id).unwrap().pop()
ChannelPop(t) ==
    /\ ~panicked
    /\ thr[t].pc = "c_pop"
    /\ IF thr[t].conn_id \notin DOMAIN connections
       THEN /\ Panic(t)
            /\ UNCHANGED connections
       ELSE /\ IF connections[thr[t].conn_id] # <<>>
               THEN /\ connections' = [connections EXCEPT
                                          ![thr[t].conn_id] = Tail(@)]
                    /\ Return(t)
               ELSE /\ thr' = [thr EXCEPT ![t].pc = "c_loop",
                                          ![t].conn_id = None]
                    /\ UNCHANGED connections
            /\ lock' = Released({"connections"})
            /\ UNCHANGED <<poisoned, panicked>>
    /\ UNCHANGED <<max_conns, rx_buf_len, channel_lookup, channels, incoming,
                   handles, last>>
    /\ UNCHANGED <<ops, arrivals>>
    /\ UNCHANGED notThr

\* DtpSocket::outgoing enters InnerDtpSocket::outgoing
OutgoingStart(t) ==
    /\ ~panicked
    /\ thr[t].pc = "idle"
    /\ ops < MaxOps
    /\ ops' = ops + 1
    /\ NumHandles < MaxHandles
    /\ \E ch \in Keys :
          thr' = [thr EXCEPT ![t].op = "outgoing", ![t].ch = ch,
                             ![t].pc = "o_lock"]
    /\ UNCHANGED <<max_conns, rx_buf_len, connections, channel_lookup,
                   channels, incoming, handles, last, lock, poisoned,
                   panicked>>
    /\ UNCHANGED <<arrivals>>
    /\ UNCHANGED notThr

\* outgoing with the channels guard held
OutgoingInsert(t) ==
    /\ ~panicked
    /\ thr[t].pc = "o_in"
    /\ IF thr[t].ch \in channels
       THEN UNCHANGED <<channels, handles>>
       ELSE /\ channels' = channels \cup {thr[t].ch}
            /\ handles' = [handles EXCEPT ![thr[t].ch] = @ + 1]
    /\ Return(t)
    /\ lock' = Released({"channels"})
    /\ UNCHANGED <<max_conns, rx_buf_len, connections, channel_lookup,
                   incoming, last, poisoned, panicked>>
    /\ UNCHANGED <<ops, arrivals>>
    /\ UNCHANGED notThr

\* Drop for DtpChannel enters close
CloseStart(t) ==
    /\ ~panicked
    /\ thr[t].pc = "idle"
    /\ ops < MaxOps
    /\ ops' = ops + 1
    /\ \E ch \in Keys :
          /\ handles[ch] > 0
          /\ handles' = [handles EXCEPT ![ch] = @ - 1]
          /\ thr' = [thr EXCEPT ![t].op = "close", ![t].ch = ch,
                                ![t].pc = "x_lock"]
    /\ UNCHANGED <<max_conns, rx_buf_len, connections, channel_lookup,
                   channels, incoming, last, lock, poisoned, panicked>>
    /\ UNCHANGED <<arrivals>>
    /\ UNCHANGED notThr

\* close: channels.remove(channel), the guard dropped after it
CloseChannels(t) ==
    /\ ~panicked
    /\ thr[t].pc = "x_rm"
    /\ channels' = channels \ {thr[t].ch}
    /\ thr' = [thr EXCEPT ![t].pc = "cid_lock"]
    /\ lock' = Released({"channels"})
    /\ UNCHANGED <<max_conns, rx_buf_len, connections, channel_lookup,
                   incoming, handles, last, poisoned, panicked>>
    /\ UNCHANGED <<ops, arrivals>>
    /\ UNCHANGED notThr

\* close: connection_id(channel).unwrap()
CloseGot(t) ==
    /\ ~panicked
    /\ thr[t].pc = "x_got"
    /\ IF thr[t].conn_id = None
       THEN Panic(t)
       ELSE /\ thr' = [thr EXCEPT ![t].pc = "x_llock"]
            /\ UNCHANGED <<lock, poisoned, panicked>>
    /\ UNCHANGED <<max_conns, rx_buf_len, connections, channel_lookup,
                   channels, incoming, handles, last>>
    /\ UNCHANGED <<ops, arrivals>>
    /\ UNCHANGED notThr

\* close: channel_lookup.remove(channel), the guard dropped after it
CloseLookup(t) ==
    /\ ~panicked
    /\ thr[t].pc = "x_lrm"
    /\ channel_lookup' = IF thr[t].ch \in DOMAIN channel_lookup
                         THEN Del(channel_lookup, thr[t].ch)
                         ELSE channel_lookup
    /\ thr' = [thr EXCEPT ![t].pc = "x_clock"]
    /\ lock' = Released({"channel_lookup"})
    /\ UNCHANGED <<max_conns, rx_buf_len, connections, channels, incoming,
                   handles, last, poisoned, panicked>>
    /\ UNCHANGED <<ops, arrivals>>
    /\ UNCHANGED notThr

\* close: connections.remove(conn_id); Slab::remove panics on a vacant slot
CloseSlot(t) ==
    /\ ~panicked
    /\ thr[t].pc = "x_crm"
    /\ IF thr[t].conn_id \in DOMAIN connections
       THEN /\ connections' = Del(connections, thr[t].conn_id)
            /\ Return(t)
            /\ lock' = Released({"connections"})
            /\ UNCHANGED <<poisoned, panicked>>
       ELSE /\ Panic(t)
            /\ UNCHANGED connections
    /\ UNCHANGED <<max_conns, rx_buf_len, channel_lookup, channels, incoming,
                   handles, last>>
    /\ UNCHANGED <<ops, arrivals>>
    /\ UNCHANGED notThr

\* DtpChannel::send creates a SendFuture
SendStart(t) ==
    /\ ~panicked
    /\ thr[t].pc = "idle"
    /\ ops < MaxOps
    /\ ops' = ops + 1
    /\ \E ch \in Keys :
          /\ handles[ch] > 0
          /\ thr' = [thr EXCEPT ![t].op = "send", ![t].ch = ch,
                                ![t].pc = "s_poll"]
    /\ UNCHANGED <<max_conns, rx_buf_len, connections, channel_lookup,
                   channels, incoming, handles, last, lock, poisoned,
                   panicked>>
    /\ UNCHANGED <<arrivals>>
    /\ UNCHANGED notThr

\* SendFuture::poll: poll_send takes no mutex; the UDP socket answers Ready
\* or Pending, and a pending future is polled again later
SendPoll(t) ==
    /\ ~panicked
    /\ thr[t].pc \in {"s_poll", "s_wait"}
    /\ \/ Return(t)
       \/ thr' = [thr EXCEPT ![t].pc = "s_wait"]
    /\ UNCHANGED <<max_conns, rx_buf_len, connections, channel_lookup,
                   channels, incoming, handles, last, lock, poisoned,
                   panicked>>
    /\ UNCHANGED <<ops, arrivals>>
    /\ UNCHANGED notThr

ThrInit ==
    /\ DtpInit
    /\ thr = [t \in Threads |-> IdleThread]
    /\ lock = [l \in Locks |-> 0]
    /\ poisoned = {}
    /\ ops = 0
    /\ arrivals = 0

\* the thread variables while another subsystem is examined
ThrIdle ==
    /\ thr = [t \in Threads |-> IdleThread]
    /\ lock = [l \in Locks |-> 0]
    /\ poisoned = {}
    /\ ops = 0
    /\ arrivals = 0

ThrNext ==
    \E t \in Threads :
       \/ Lock(t)
       \/ CidGet(t)
       \/ CidInsert(t)
       \/ RecvDatagram(t)
       \/ RecvPush(t)
       \/ RecvCheck(t)
       \/ RecvAnnounce(t)
       \/ IncomingStart(t)
       \/ IncomingFast(t)
       \/ IncomingPop(t)
       \/ IncomingInsert(t)
       \/ ChannelStart(t)
       \/ ChannelPop(t)
       \/ OutgoingStart(t)
       \/ OutgoingInsert(t)
       \/ CloseStart(t)
       \/ CloseChannels(t)
       \/ CloseGot(t)
       \/ CloseLookup(t)
       \/ CloseSlot(t)
       \/ SendStart(t)
       \/ SendPoll(t)

(***************************************************************************)
(* OuterDtpSocket                                                          *)
(*                                                                         *)
(* dtp/src/socket.rs keeps the whole socket behind one std Mutex, inner.   *)
(* Its methods are followed by what they do with that mutex: every method  *)
(* but send locks it for sections without an await; send awaits            *)
(* udp.send_to with the guard in scope.  The tables are left out.          *)
(***************************************************************************)

\* the methods of OuterDtpSocket that lock inner
OuterOps == {"send", "recv", "incoming", "outgoing", "close"}

\* a task outside of the socket
OuterIdleTask == [op |-> "idle", pc |-> "idle", ch |-> 0]

OuterInit ==
    /\ inner = 0
    /\ otask = [t \in Threads |-> OuterIdleTask]

\* the OuterDtpSocket variables while another subsystem is examined
OuterIdle ==
    /\ inner = 0
    /\ otask = [t \in Threads |-> OuterIdleTask]

\* a task calls a method, which starts with self.inner.lock()
OuterCall(t) ==
    /\ otask[t].pc = "idle"
    /\ \E op \in OuterOps : \E ch \in Keys :
          otask' = [otask EXCEPT ![t] = [op |-> op, pc |-> "lock",
                                          ch |-> IF op = "send" THEN ch ELSE 0]]
    /\ UNCHANGED inner
    /\ UNCHANGED notOuter

\* self.inner.lock().unwrap(): the thread blocks until the guard is free
OuterLock(t) ==
    /\ otask[t].pc = "lock"
    /\ inner = 0
    /\ inner' = t
    /\ otask' = [otask EXCEPT ![t].pc = "held"]
    /\ UNCHANGED notOuter

\* poll_recv, poll_incoming, poll_channel, outgoing or close with the guard:
\* the section has no await, the guard is dropped at its end, and the
\* method returns or (the loops of the poll methods) locks again
OuterSection(t) ==
    /\ otask[t].pc = "held"
    /\ otask[t].op # "send"
    /\ inner' = 0
    /\ \/ otask' = [otask EXCEPT ![t] = OuterIdleTask]
       \/ /\ otask[t].op \in {"recv", "incoming"}
          /\ otask' = [otask EXCEPT ![t].pc = "lock"]
    /\ UNCHANGED notOuter

\* send: socket.udp.send_to(..).await with the guard socket in scope; the
\* future is Ready, or Pending and the task is suspended until it is polled
\* again
OuterSendTo(t) ==
    /\ otask[t].op = "send"
    /\ otask[t].pc \in {"held", "pending"}
    /\ \/ /\ otask' = [otask EXCEPT ![t] = OuterIdleTask]
          /\ inner' = 0
       \/ /\ otask' = [otask EXCEPT ![t].pc = "pending"]
          /\ UNCHANGED inner
    /\ UNCHANGED notOuter

OuterNext ==
    \E t \in Threads :
       \/ OuterCall(t)
       \/ OuterLock(t)
       \/ OuterSection(t)
       \/ OuterSendTo(t)

(***************************************************************************)
(* One Negotiation against any peer                                        *)
(*                                                                         *)
(* n1 alone: it may initiate, and whatever Message the peer sends reaches  *)
(* n1.message() in the order sent.  neg_log keeps what the peer has sent.  *)
(***************************************************************************)

\* every Message a peer can send
PeerMessages ==
    [ty : {"Propose", "Accept"}, protocol : Protocols]
       \cup {[ty |-> "Fail", protocol |-> NoProto]}

\* n1.initiate(), before n1 has read anything
MsgInitiate ==
    /\ ~n1.started
    /\ n1' = Initiate(n1).n
    /\ neg_box' = [neg_box EXCEPT ![2] = Append(@, Initiate(n1).msg)]
    /\ UNCHANGED <<n2, neg_msg, neg_err, neg_log>>
    /\ UNCHANGED notNeg

\* the peer sends a Message
MsgArrive ==
    /\ ~neg_err
    /\ Len(neg_log) < MaxPeerMsgs
    /\ \E m \in PeerMessages :
          /\ neg_box' = [neg_box EXCEPT ![1] = Append(@, m)]
          /\ neg_log' = Append(neg_log, m)
    /\ UNCHANGED <<n1, n2, neg_msg, neg_err>>
    /\ UNCHANGED notNeg

\* n1.message() on the oldest Message the peer has sent; a reply goes to
\* the peer
MsgRead ==
    /\ ~neg_err
    /\ neg_box[1] # <<>>
    /\ LET r == NegMessage(n1, Head(neg_box[1])) IN
       /\ n1' = r.n
       /\ neg_err' = r.err
       /\ neg_box' = [neg_box EXCEPT
                        ![1] = Tail(@),
                        ![2] = IF r.msg = NoMessage THEN @
                               ELSE Append(@, r.msg)]
    /\ UNCHANGED <<n2, neg_msg, neg_log>>
    /\ UNCHANGED notNeg

MsgNext ==
    \/ MsgInitiate
    \/ MsgArrive
    \/ MsgRead

SimNext ==
    \/ \E i \in 1..2 : SimInitiate(i)
    \/ \E i \in 1..2 : SimDeliver(i)

NegNext ==
    \/ NegInitiate
    \/ NegDeliver1
    \/ NegDeliver2

DtcpNext ==
    \/ DtcpSend
    \/ DtcpTask
    \/ DtcpRecvA
    \/ DtcpRecvB
    \/ Tick

RtxNext ==
    \/ DtcpSend
    \/ DtcpTask
    \/ RtxAck
    \/ Tick

DtpNext ==
    \/ Outgoing
    \/ IncomingNext
    \/ ChannelRecv
    \/ DropChannel

\* a fresh pair of DtcpChannels; the other subsystems stay idle
DtcpSpecInit == DtcpInit /\ DtpIdle /\ NegIdle /\ EfcpIdle /\ DiscoIdle /\ PktIdle /\ ChanIdle /\ ThrIdle /\ FifoIdle /\ OuterIdle /\ LossIdle

\* a pair of DtcpChannels over a lossy substrate
DtcpSpec == DtcpSpecInit /\ [][DtcpNext]_vars

\* a Retransmission queue driven directly
RtxSpec == DtcpSpecInit /\ [][RtxNext]_vars

\* DTCP while at most one Control packet is lost
LossSpec == DtcpSpecInit /\ [][LossNext]_vars

BudgetSpecInit == BudgetInit /\ DtpIdle /\ NegIdle /\ EfcpIdle /\ DiscoIdle /\ PktIdle /\ ChanIdle /\ ThrIdle /\ FifoIdle /\ OuterIdle /\ LossIdle

\* one unacknowledged Transfer on a channel built with any max_rtx
BudgetSpec == BudgetSpecInit /\ [][BudgetNext]_vars

\* a freshly bound DtpSocket; the other subsystems stay idle
DtpSpecInit == DtpInit /\ DtcpIdle /\ NegIdle /\ EfcpIdle /\ DiscoIdle /\ PktIdle /\ ChanIdle /\ ThrIdle /\ FifoIdle /\ OuterIdle /\ LossIdle

\* a DtpSocket, the datagrams that reach it and the application's calls
DtpSpec == DtpSpecInit /\ [][DtpNext]_vars

FifoSpecInit == FifoInit /\ DtcpIdle /\ NegIdle /\ EfcpIdle /\ DiscoIdle /\ PktIdle /\ ChanIdle /\ ThrIdle /\ OuterIdle /\ LossIdle

FifoSpec == FifoSpecInit /\ [][FifoNext]_vars

OuterSpecInit == OuterInit /\ DtcpIdle /\ DtpIdle /\ NegIdle /\ EfcpIdle /\ DiscoIdle /\ PktIdle /\ ChanIdle /\ ThrIdle /\ FifoIdle /\ LossIdle

OuterSpec == OuterSpecInit /\ [][OuterNext]_vars

ThrSpecInit == ThrInit /\ DtcpIdle /\ NegIdle /\ EfcpIdle /\ DiscoIdle /\ PktIdle /\ ChanIdle /\ FifoIdle /\ OuterIdle /\ LossIdle

ThrSpec == ThrSpecInit /\ [][ThrNext]_vars

\* two fresh Negotiations; the other subsystems stay idle
NegSpecInit == NegInit /\ DtcpIdle /\ DtpIdle /\ EfcpIdle /\ DiscoIdle /\ PktIdle /\ ChanIdle /\ ThrIdle /\ FifoIdle /\ OuterIdle /\ LossIdle

\* an initiator and a responder Negotiation feeding each other's replies
NegSpec == NegSpecInit /\ [][NegNext]_vars

\* a fresh handshake; the other subsystems stay idle
EfcpSpecInit == EfcpInit /\ DtcpIdle /\ DtpIdle /\ NegIdle /\ DiscoIdle /\ PktIdle /\ ChanIdle /\ ThrIdle /\ FifoIdle /\ OuterIdle /\ LossIdle

\* EfcpChannel::initiator against EfcpChannel::responder or another responder
EfcpSpec == EfcpSpecInit /\ [][EfcpNext]_vars

\* a fresh DiscoChannel; the other subsystems stay idle
DiscoSpecInit == DiscoInit /\ DtcpIdle /\ DtpIdle /\ NegIdle /\ EfcpIdle /\ PktIdle /\ ChanIdle /\ ThrIdle /\ FifoIdle /\ OuterIdle /\ LossIdle

\* the sends on one DiscoChannel
DiscoSpec == DiscoSpecInit /\ [][DiscoNext]_vars

\* two Negotiations that both call initiate()
SimSpec == NegSpecInit /\ [][SimNext]_vars

\* one Negotiation that reads whatever a peer sends
MsgSpec == NegSpecInit /\ [][MsgNext]_vars

PktSpecInit == PktInit /\ DtcpIdle /\ DtpIdle /\ NegIdle /\ EfcpIdle /\ DiscoIdle /\ ChanIdle /\ ThrIdle /\ FifoIdle /\ OuterIdle /\ LossIdle

PktSpec == PktSpecInit /\ [][PktNext]_vars

HdrSpecInit == HdrInit /\ DtcpIdle /\ DtpIdle /\ NegIdle /\ EfcpIdle /\ DiscoIdle /\ ChanIdle /\ ThrIdle /\ FifoIdle /\ OuterIdle /\ LossIdle

\* DTCP headers written by set_ty and set_seq_num, and read from the wire
HdrSpec == HdrSpecInit /\ [][HdrNext]_vars

DiscoRecvSpecInit == DiscoRecvInit /\ DtcpIdle /\ DtpIdle /\ NegIdle /\ EfcpIdle /\ DiscoIdle /\ ChanIdle /\ ThrIdle /\ FifoIdle /\ OuterIdle /\ LossIdle

\* DiscoChannel::recv on datagrams of every length
DiscoRecvSpec == DiscoRecvSpecInit /\ [][DiscoRecvNext]_vars

ChanSpecInit == ChanInit /\ DtpIdle /\ NegIdle /\ EfcpIdle /\ DiscoIdle /\ PktIdle /\ ThrIdle /\ FifoIdle /\ OuterIdle /\ LossIdle

ChanSpec == ChanSpecInit /\ [][ChanNext]_vars

CtlSpec == ChanSpecInit /\ [][CtlNext]_vars

SuccSpecInit == SuccInit /\ DtpIdle /\ NegIdle /\ EfcpIdle /\ DiscoIdle /\ PktIdle /\ ThrIdle /\ FifoIdle /\ OuterIdle /\ LossIdle

\* one recv of a non-DRF Transfer at every value of last_ack
SuccSpec == SuccSpecInit /\ [][SuccNext]_vars

WrapSpec == DtcpSpecInit /\ [][WrapNext]_vars

\* the executor keeps running spawned tasks and time goes on
RtxFairness ==
    /\ WF_vars(Tick)
    /\ WF_vars(DtcpTask)

RtxFairSpec == DtcpSpecInit /\ [][RtxNext]_vars /\ RtxFairness

\* the executor keeps polling both handshake futures: a side whose
\* channel.recv() has a packet ready reads it, a side that can write does
EfcpFairness ==
    /\ WF_vars(IniWrite)
    /\ WF_vars(IniRead)
    /\ WF_vars(IniPostRecv)
    /\ WF_vars(RspRead)
    /\ WF_vars(RspPostRecv)
    /\ WF_vars(OtherRespond)

EfcpFairSpec == EfcpSpecInit /\ [][EfcpNext]_vars /\ EfcpFairness

----------------------------------------------------------------------------
(***************************************************************************)
(* Claims about DTCP                                                       *)
(***************************************************************************)

\* number of times b.recv returned the Transfer with seq_num s
Delivs(s) == Cardinality({i \in 1..Len(delivered) : delivered[i].sn = s})

\* C1: the Transfers b.recv returns hold every seq_num at most once, and
\* every returned Transfer that does not start a run (drf) carries the
\* seq_num of the Transfer returned before it, plus one.
C1_InOrderNoDuplicates ==
    /\ \A s \in SeqNums : Delivs(s) <= 1
    /\ \A i \in 2..Len(delivered) :
         ~delivered[i].drf => delivered[i].sn = delivered[i - 1].sn + 1

\* nothing is under way to b and no task will transmit again
Settled ==
    /\ wire_ab = {}
    /\ \A i \in 1..Len(txs) : txs[i].pc = "done"

\* C2: once b.recv has read everything the substrate delivers, every
\* Transfer of which it read a copy has been returned by b.recv, and
\* returned exactly once.
C2_DeliveredExactlyOnce ==
    Settled => \A s \in arrived : Delivs(s) = 1

\* a DtcpChannel::send call is the step that changes seq_num
IsSendStep == seq_num' # seq_num

\* the budget of some transmission is exhausted
Exhausted == \E i \in 1..Len(txs) : txs[i].tx_left < 0

\* C3: once a budget is exhausted the timed-out flag is set, it is never
\* cleared, and every later send returns TimedOut, enqueues nothing and
\* transmits nothing.
C3_TimedOutIsFinal ==
    [][ /\ Exhausted' => timedout'
        /\ timedout => timedout'
        /\ (timedout /\ IsSendStep) =>
              /\ send_res' = "TimedOut"
              /\ queue' = queue
              /\ txs' = txs
              /\ wire_ab' = wire_ab ]_vars

\* C3 witness: a send was refused after the flag was set
C3_Witness == timedout /\ send_res = "TimedOut" /\ Exhausted

\* the task of txs[i] has stopped without the transmission being acked
StoppedUnacked(i) == txs[i].pc = "done" /\ ~txs[i].acked

\* C4 as claimed: a Transfer that is never acked was put on the wire
\* exactly 1 + max_rtx times when its task stops.
C4_ExactlyBudgetTransmissions ==
    \A i \in 1..Len(txs) : StoppedUnacked(i) => txs[i].sent = 1 + max_rtx

\* C4 amended: a Transfer is put on the wire at most 1 + max_rtx times, a
\* retransmission comes more than rtx_interval after the previous
\* transmission, an unacked Transfer whose task stops was transmitted
\* 1 + max_rtx times unless another Transfer exhausted its budget, and the
\* flag is set only by a Transfer that was transmitted 1 + max_rtx times and
\* then waited a further rtx_interval.
C4_BudgetTransmissions ==
    [][ /\ \A i \in 1..Len(txs') :
             /\ txs'[i].sent <= 1 + max_rtx
             /\ (txs'[i].pc = "done" /\ ~txs'[i].acked) =>
                   \/ txs'[i].sent = 1 + max_rtx
                   \/ \E j \in 1..Len(txs') : j # i /\ txs'[j].tx_left < 0
        /\ \A i \in 1..Len(txs) :
             (txs'[i].sent = txs[i].sent + 1 /\ txs[i].sent >= 1) =>
                 txs[i].since_tx > RtxTime
        /\ (timedout' /\ ~timedout) =>
             \E i \in 1..Len(txs) :
                 /\ txs[i].sent = 1 + max_rtx
                 /\ txs[i].since_tx > RtxTime
                 /\ txs'[i].tx_left < 0 ]_vars

\* C4 witness: a Transfer was retransmitted, used up its budget and set the
\* flag
C4_Witness ==
    \E i \in 1..Len(txs) :
        /\ StoppedUnacked(i)
        /\ txs[i].sent = 1 + max_rtx
        /\ txs[i].sent >= 2
        /\ txs[i].tx_left < 0
        /\ timedout

----------------------------------------------------------------------------
(***************************************************************************)
(* Claims about DTP                                                        *)
(***************************************************************************)

\* the step is Incoming::poll_next yielding a DtpChannel for key k
IncomingYields(k) == last'.op = "incoming" /\ handles'[k] = handles[k] + 1

\* C5: the incoming stream yields a DtpChannel for a key only when the
\* application holds no DtpChannel for that key, be it from an earlier
\* yield or from outgoing.
C5_IncomingYieldsOnce ==
    [][\A k \in Keys : IncomingYields(k) => handles[k] = 0]_vars

\* number of times key k occurs in the incoming queue
Occurrences(k) == Cardinality({i \in 1..Len(incoming) : incoming[i] = k})

\* C6: each channel key occurs at most once in the incoming queue.
C6_IncomingKeysUnique == \A k \in Keys : Occurrences(k) <= 1

\* C7: outgoing for a key in opened returns 'channel already taken' and
\* changes nothing; for a key not in opened it succeeds and adds exactly
\* that key to opened.
C7_OutgoingDuplicate ==
    [][ last'.op = "outgoing" =>
          /\ last'.res \in {"taken", "ok"}
          /\ last'.res = "taken" <=> last'.key \in channels
          /\ last'.res = "taken" =>
                /\ channels' = channels
                /\ handles' = handles
          /\ last'.res = "ok" =>
                /\ channels' = channels \cup {last'.key}
                /\ handles' = [handles EXCEPT ![last'.key] = @ + 1]
          /\ channel_lookup' = channel_lookup
          /\ connections' = connections
          /\ incoming' = incoming ]_vars

\* C7 witness: outgoing was refused while a key waited in incoming and a
\* slot held a packet
C7_Witness ==
    /\ last.op = "outgoing"
    /\ last.res = "taken"
    /\ incoming # <<>>
    /\ \E c \in DOMAIN connections : connections[c] # <<>>

\* C8: dropping a DtpChannel completes without a panic and without
\* allocating a slot, and afterwards its key is in neither opened nor
\* by_key.
C8_DropCloses ==
    last.op = "drop" =>
        /\ last.res = "ok"
        /\ ~last.alloc
        /\ last.key \notin channels
        /\ last.key \notin DOMAIN channel_lookup

----------------------------------------------------------------------------
(***************************************************************************)
(* Claims about the negotiation                                            *)
(***************************************************************************)

\* both sides are finished and no Message is under way
NegDone == n1.finished /\ n2.finished /\ neg_msg.to = 0

\* the protocols of a list
Range(l) == {l[i] : i \in 1..Len(l)}

\* C9: when both sides are finished, into_protocol returns the same value
\* on both.
C9_SameProtocol == NegDone => IntoProtocol(n1) = IntoProtocol(n2)

\* C9 witness: the dialog took a counter-proposal and ended with a protocol
C9_Witness ==
    /\ NegDone
    /\ IntoProtocol(n1) # NoProto
    /\ Len(neg_log) >= 3

\* C10: the dialog ends with an accepted protocol exactly when the two
\* lists share one, the accepted protocol is in both lists, and with
\* disjoint lists both sides end with no protocol after a Fail.
C10_AcceptedIffShared ==
    NegDone =>
        LET shared == Range(n1.protocols) \cap Range(n2.protocols) IN
        /\ ~neg_err
        /\ IntoProtocol(n1) # NoProto <=> shared # {}
        /\ IntoProtocol(n1) # NoProto => IntoProtocol(n1) \in shared
        /\ IntoProtocol(n2) # NoProto => IntoProtocol(n2) \in shared
        /\ shared = {} =>
              /\ IntoProtocol(n1) = NoProto
              /\ IntoProtocol(n2) = NoProto
              /\ neg_log[Len(neg_log)].ty = "Fail"
        /\ (n1.protocols = <<"/a", "/b">> /\ n2.protocols = <<"/b">>) =>
              IntoProtocol(n1) = "/b"

\* C10 witness: ["/a","/b"] against ["/b"] has ended with "/b"
C10_Witness ==
    /\ NegDone
    /\ n1.protocols = <<"/a", "/b">>
    /\ n2.protocols = <<"/b">>
    /\ IntoProtocol(n2) = "/b"

\* both sides initiated and every Message sent has been read
SimDone ==
    /\ n1.started /\ n2.started
    /\ neg_box = <<<<>>, <<>>>>
    /\ Len(neg_log) >= 2

\* C11: when both sides initiate and the lists share a protocol, the dialog
\* ends without a ProtocolError, both sides are finished, and into_protocol
\* returns the same protocol of the intersection on both sides.
C11_BothInitiateAgree ==
    (SimDone /\ Range(n1.protocols) \cap Range(n2.protocols) # {}) =>
        /\ ~neg_err
        /\ n1.finished /\ n2.finished
        /\ IntoProtocol(n1) = IntoProtocol(n2)
        /\ IntoProtocol(n1) \in Range(n1.protocols) \cap Range(n2.protocols)

----------------------------------------------------------------------------
(***************************************************************************)
(* Claims about the EFCP handshake                                         *)
(***************************************************************************)

\* the initiator's session has finished the handshake
IniHandshakeDone == ini.sess = HandshakeMessages

\* C12: initiator returns Ok only with an observed address and a finished
\* negotiation that accepted a protocol; it returns ExternalAddr when the
\* handshake ended without an observed address, and Negotiation when the
\* negotiation finished without a protocol; so does the responder.
C12_InitiatorResult ==
    /\ ini.result = "Ok" =>
          /\ ini.external_addr # NoAddr
          /\ ini.negotiate.finished
          /\ IntoProtocol(ini.negotiate) # NoProto
          /\ ini.protocol = IntoProtocol(ini.negotiate)
    /\ (IniHandshakeDone /\ ini.external_addr = NoAddr) =>
          ini.result = "ExternalAddr"
    /\ (/\ ini.pc = "done" /\ ini.result # "ProtocolError"
        /\ ini.external_addr # NoAddr
        /\ ini.negotiate.finished
        /\ IntoProtocol(ini.negotiate) = NoProto) =>
          ini.result = "Negotiation"
    /\ rsp.result = "Ok" => IntoProtocol(rsp.negotiate) # NoProto
    /\ (/\ hs_peer = "efcp" /\ rsp.pc = "done" /\ rsp.result # "ProtocolError"
        /\ rsp.negotiate.finished
        /\ IntoProtocol(rsp.negotiate) = NoProto) =>
          rsp.result = "Negotiation"

\* C12 witness: the handshake ended and no packet carried an address
C12_Witness ==
    /\ IniHandshakeDone
    /\ ini.result = "ExternalAddr"
    /\ ini.negotiate.finished

\* C13: the responder's first packet carries the address it observed, no
\* later packet of it carries an address, and once the handshake is done
\* the initiator's external_addr is that address.
C13_ObservedAddrInFirstResponse ==
    hs_peer = "efcp" =>
        /\ \A i \in 1..Len(hs_sent) :
              /\ hs_sent[i].contains_addr <=> i = 1
              /\ i = 1 => hs_sent[i].addr = hs_addr
        /\ IniHandshakeDone => ini.external_addr = hs_addr

\* C13 witness: a handshake ended Ok on both sides after the responder sent
\* a packet after its first
C13_Witness ==
    /\ hs_peer = "efcp"
    /\ ini.result = "Ok"
    /\ rsp.result = "Ok"
    /\ Len(hs_sent) >= 2
    /\ ini.external_addr = hs_addr

----------------------------------------------------------------------------
(***************************************************************************)
(* Claims about Disco                                                      *)
(***************************************************************************)

\* C14: no two sends on one DiscoChannel use the same nonce.
C14_NoncesUnique ==
    \A i, j \in 1..Len(disco_sends) :
        i # j => disco_sends[i].nonce # disco_sends[j].nonce

C17_AckedNeverTimesOut ==
    [][ /\ \A i \in 1..Len(txs) :
              (txs[i].acked /\ TaskSend(i)) => timedout' = timedout
        /\ ((\A i \in 1..Len(txs) : txs[i].acked) /\ IsSendStep) =>
              send_res' = "ok" ]_vars

\* C16: when DtcpChannel::recv processes a Control packet with seq_num K,
\* every queued transmission with seq_num <= K is marked acked and removed
\* and every queued transmission with seq_num > K stays queued, in order,
\* and unacked, within the same pass of the loop.
C16_ControlAcksUpToK ==
    [][ \A inp \in ChanInputs : (IsControl(inp) /\ ChanRecvOf(inp)) =>
          LET k == SeqNumOf(inp.packet) IN
          /\ \A j \in 1..Len(queue) :
                IF queue[j][1] <= k
                THEN /\ txs'[queue[j][2]].acked
                     /\ queue[j] \notin Range(queue')
                ELSE /\ ~txs'[queue[j][2]].acked
                     /\ queue[j] \in Range(queue')
          /\ Range(queue') \subseteq Range(queue)
          /\ \A a, b \in 1..Len(queue') : a < b => queue'[a][1] < queue'[b][1]
      ]_vars

\* a Control packet acked the first of two queued transmissions and left
\* the second one queued and unacked
C16_Witness ==
    /\ recv_res = "loop"
    /\ Len(txs) = 2
    /\ txs[1].acked
    /\ ~txs[2].acked
    /\ queue = <<<<txs[2].sn, 2>>>>

\* C18: the very first Transfer sent carries drf = true, a Transfer sent
\* after the inactivity timer expired since the previous send carries
\* drf = true again, and every other Transfer carries drf = false.
C18_DrfOnFirstAndAfterInactivity ==
    [][ (IsSendStep /\ send_res' = "ok") =>
          txs'[Len(txs')].drf = (Len(txs) = 0 \/ idle > KeepAlive) ]_vars

\* C19: a received packet whose DTCP header fails to parse is dropped and
\* recv goes on to the next packet: the failure is not returned to the
\* caller and neither last_ack nor the retransmission queue changes.
C19_InvalidPacketSkipped ==
    [][ \A inp \in ChanInputs :
          (inp.res = "Ok" /\ ~DtcpParse(inp.packet) /\ ChanRecvOf(inp)) =>
              /\ recv_res' = "loop"
              /\ last_ack' = last_ack
              /\ queue' = queue
              /\ txs' = txs ]_vars

\* C20: an error the underlying channel returns while a Transfer is being
\* sent is returned to the caller of DtcpChannel::send, and an error the
\* underlying channel's recv returns is returned from DtcpChannel::recv.
C20_ChannelErrorsReturned ==
    [][ /\ (chan_err' /\ ~chan_err) => send_res' = "Err_io"
        /\ \A inp \in ChanInputs :
              (inp.res = "Err" /\ ChanRecvOf(inp)) => recv_res' = "Err_io"
      ]_vars

\* C21: no seq_num is assigned to a new Transfer while an earlier Transfer
\* with the same seq_num is still unacknowledged in the retransmission
\* queue: the queue never holds two entries with equal seq_num.
C21_QueueSeqNumsDistinct ==
    \A a, b \in 1..Len(queue) : a # b => queue[a][1] # queue[b][1]

\* the task of the i-th Transfer has returned from send_all
TaskDone(i) == i <= Len(txs) /\ txs[i].pc = "done"

\* C22: every retransmission task terminates, after its Transfer is acked,
\* after the channel is timed out, or, when no ack arrives, after at most
\* 1 + max_rtx transmissions: no task retransmits forever, so that from
\* some point on every task there is has returned.
C22_TasksTerminate ==
    /\ [](\A i \in 1..Len(txs) : txs[i].sent <= 1 + max_rtx)
    /\ <>[](\A i \in 1..Len(txs) : TaskDone(i))

\* with retransmissions configured, the task of a Transfer that was never
\* acked has stopped after 1 + max_rtx transmissions
C22_Witness ==
    /\ max_rtx = MaxRtxCfg
    /\ \E i \in 1..Len(txs) :
          /\ txs[i].pc = "done"
          /\ ~txs[i].acked
          /\ txs[i].sent = 1 + max_rtx
          /\ txs[i].tx_left < 0

\* C23: a received datagram is pushed only into the FIFO of the slot that
\* is mapped to its own key (src, channel_id) at the time of the push, while
\* other threads receive and close: the slot is there, and channel_lookup
\* maps the datagram's key to it
C23_PushIntoOwnSlot ==
    \A t \in Threads :
       thr[t].pc = "r_push" =>
          /\ thr[t].conn_id \in DOMAIN connections
          /\ thr[t].src \in DOMAIN channel_lookup
          /\ channel_lookup[thr[t].src] = thr[t].conn_id

\* the connection table is consistent: every key of channel_lookup maps to
\* an occupied slot, distinct keys map to distinct slots, and every occupied
\* slot is mapped by exactly one key
TableConsistent ==
    /\ \A k \in DOMAIN channel_lookup : channel_lookup[k] \in DOMAIN connections
    /\ \A j, k \in DOMAIN channel_lookup :
          j # k => channel_lookup[j] # channel_lookup[k]
    /\ \A c \in DOMAIN connections :
          Cardinality({k \in DOMAIN channel_lookup : channel_lookup[k] = c}) = 1

\* C24: whenever no thread holds the guard of channel_lookup or of
\* connections (between operations, and after every release of the two
\* inside an operation), the connection table is consistent
C24_TableConsistentAtRelease ==
    (lock["channel_lookup"] = 0 /\ lock["connections"] = 0) => TableConsistent

\* C25: when poll_incoming returns a DtpChannel, its key is in opened
\* (channels), on the fast path and on the loop path
C25_YieldedKeyOpened ==
    (last.op = "incoming" /\ last.res = "ok") => last.key \in channels

\* the FIFO of key k's slot
Fifo(k) == connections[channel_lookup[k]]

\* a poll has just read a well-formed datagram of a key that has its slot
ReadFor(k) ==
    /\ last'.op = "recv"
    /\ got'.src = k
    /\ got'.payload # Empty
    /\ k \in DOMAIN channel_lookup

C27_AnnounceNeverPanics == ~(panicked /\ last.op \in {"incoming", "recv"})

\* the order of the mutexes: opened, by_key, slots
LockRank(l) == CASE l = "channels" -> 1
                 [] l = "channel_lookup" -> 2
                 [] l = "connections" -> 3

\* thread t is at a lock() whose mutex another thread holds (or it itself)
Waiting(t) ==
    /\ thr[t].pc \in DOMAIN LockSites
    /\ lock[LockSites[thr[t].pc].mutex] # 0

\* the thread that holds the mutex thread t waits for
WaitsFor(t) == lock[LockSites[thr[t].pc].mutex]

\* C28: a thread that takes a mutex holds only mutexes that are earlier in
\* the order channels, channel_lookup, connections; and the threads never
\* deadlock: there is no set of threads each of which waits for a mutex
\* that a thread of the set holds
C28_LockOrderNoDeadlock ==
    /\ [][\A t \in Threads : \A l \in Locks :
            (lock'[l] = t /\ lock[l] # t) =>
               \A h \in Held(t) : LockRank(h) < LockRank(l)]_vars
    /\ [](\A S \in (SUBSET Threads) \ {{}} :
            \E t \in S : ~(Waiting(t) /\ WaitsFor(t) \in S))

\* a thread inside connection_id holds channel_lookup and connections while
\* a thread in close waits for connections and a DtpChannel is open
C28_Witness ==
    \E t, u \in Threads :
       /\ Held(t) = {"channel_lookup", "connections"}
       /\ thr[t].op \in {"incoming", "channel"}
       /\ thr[u].op = "close"
       /\ thr[u].pc = "x_clock"

\* C29: no mutex is held across a suspension point: a task whose send on
\* the UDP socket is pending holds no guard of the DTP socket, so that it
\* blocks no other task's recv, incoming, outgoing or close
C29_NoGuardWhilePending ==
    \A t \in Threads :
       otask[t].pc = "pending" =>
          /\ inner # t
          /\ \A u \in Threads : ~(otask[u].pc = "lock" /\ inner = t)

\* side i's Negotiation
Side(i) == IF i = 1 THEN n1 ELSE n2

\* side i has just read the oldest Message under way to it, a Propose
ReadsPropose(i) ==
    /\ neg_box[i] # <<>>
    /\ neg_box'[i] = Tail(neg_box[i])
    /\ Head(neg_box[i]).ty = "Propose"

\* side i has just replied with message m
Replies(i, m) ==
    /\ ~neg_err'
    /\ neg_box'[3 - i] = Append(neg_box[3 - i], m)

\* C30: a Negotiation that reads Propose(p) replies Accept, sets accepted = p
\* and is finished if p is in its list and it has accepted nothing yet;
\* otherwise it proposes the entry of its list after the ones it has
\* proposed, in list order and each entry once, and when there is none left
\* it replies Fail and is finished
C30_ProposeHandled ==
    [][\A i \in 1..2 :
         ReadsPropose(i) =>
            LET n == Side(i)
                p == Head(neg_box[i]).protocol
            IN
            IF Supported(n, p) /\ n.accepted = NoProto
            THEN /\ Replies(i, [ty |-> "Accept", protocol |-> p])
                 /\ Side(i)'.accepted = p
                 /\ Side(i)'.finished
            ELSE IF n.tried < Len(n.protocols)
            THEN /\ Replies(i, [ty |-> "Propose",
                                 protocol |-> n.protocols[n.tried + 1]])
                 /\ Side(i)'.tried = n.tried + 1
                 /\ Side(i)'.accepted = n.accepted
            ELSE /\ Replies(i, [ty |-> "Fail", protocol |-> NoProto])
                 /\ Side(i)'.finished
    ]_vars

\* side i has just read the oldest Message under way to it, an Accept
ReadsAccept(i) ==
    /\ neg_box[i] # <<>>
    /\ neg_box'[i] = Tail(neg_box[i])
    /\ Head(neg_box[i]).ty = "Accept"

\* C31: a Negotiation that reads an Accept for the protocol it has proposed
\* last finishes with that protocol accepted and sends no reply; an Accept
\* read when it has proposed nothing, or for another protocol than the one
\* it has proposed last, is a protocol error and sets no accepted protocol
C31_AcceptHandled ==
    [][ReadsAccept(1) =>
          IF n1.proposed # NoProto /\ Head(neg_box[1]).protocol = n1.proposed
          THEN /\ ~neg_err'
               /\ n1'.accepted = n1.proposed
               /\ n1'.finished
               /\ neg_box'[2] = neg_box[2]
          ELSE /\ neg_err'
               /\ n1'.accepted = n1.accepted
               /\ neg_box'[2] = neg_box[2]
    ]_vars

\* the first header byte is one set_ty can write: type 0 with at most the
\* DRF flag, or type 1 with no flag
HeaderDefined(p) ==
    /\ Len(DtpPayload(p)) >= 3
    /\ DtpPayload(p)[1] \in {0, 1, 16}

\* a step in which DtcpPacket::parse reads the packet in hand
ParsesHeader ==
    /\ pkt_layer = "dtcp"
    /\ pkt_lower /= NoPacket
    /\ pkt_lower' = NoPacket
    /\ pkt_res' /= "none"

\* a step in which a header is written into a new packet
WritesHeader ==
    /\ pkt_layer = "dtcp"
    /\ pkt_from = "none"
    /\ pkt_from' = "new"

\* C32: DtcpPacket::parse accepts a header exactly when its type nibble is
\* 0 or 1 and no undefined flag bit is set (only the DRF flag, on a
\* Transfer), and rejects every other header; ty() and seq_num() return
\* what set_ty and set_seq_num wrote.
C32_ParseAcceptsDefinedHeaders ==
    [][/\ ParsesHeader => (pkt_res' = "Ok" <=> HeaderDefined(pkt_lower))
       /\ WritesHeader =>
             \A ty \in DtcpTypes, sn \in HdrSeqNums :
                pkt_upper' = SetSeqNum(SetTy(DtcpNew(pkt_n'), ty), sn)
                   => /\ Ty(pkt_upper') = ty
                      /\ SeqNumOf(pkt_upper') = sn
                      /\ DtcpParse(IntoPacket(pkt_upper'))]_vars

\* C32, the part the code keeps: a header of type 2 or more is rejected and
\* a written header reads back as written
C32_TypeCheckedAndRoundTrip ==
    [][/\ ParsesHeader => (pkt_res' = "Ok" <=>
                              /\ Len(DtpPayload(pkt_lower)) >= 3
                              /\ RawType(pkt_lower) < 2)
       /\ WritesHeader =>
             \A ty \in DtcpTypes, sn \in HdrSeqNums :
                pkt_upper' = SetSeqNum(SetTy(DtcpNew(pkt_n'), ty), sn)
                   => /\ Ty(pkt_upper') = ty
                      /\ SeqNumOf(pkt_upper') = sn]_vars

\* the seq_nums Retransmission::ack removes from the queue in this step
AckRemoves ==
    {queue[j][1] : j \in {j \in 1..Len(queue) :
                            \A i \in 1..Len(queue') : queue'[i] /= queue[j]}}

\* C33: whenever the sender removes a Transfer from its retransmission queue
\* as acknowledged, the peer's recv has already handed that Transfer to the
\* peer's application, whatever is lost or reordered.
C33_AckedWasDelivered ==
    [][\A sn \in AckRemoves :
          \E d \in 1..Len(delivered) : delivered[d].sn = sn]_vars

\* C34: with max_rtx >= 1, when one Control packet is lost and every other
\* packet is delivered, the sender's channel never becomes timed out: the
\* retransmitted copy of the delivered Transfer makes the sender learn
\* that it was received.
C34_OneLostAckNoTimeout == max_rtx >= 1 => ~timedout

\* without any loss the channel of this substrate does not time out
NoLossNoTimeout == acks_lost = 0 => ~timedout

C36_IntoProtocolOnFinished ==
    /\ ini.result /= "panic"
    /\ rsp.result /= "panic"
    /\ ini.negotiate.started

\* C36 among honest peers
HonestNoPanic ==
    hs_peer = "efcp" => ini.result /= "panic" /\ rsp.result /= "panic"

\* C37: DiscoChannel::recv returns an error, and neither panics nor reads
\* outside the buffer, for every packet whose lower-layer payload is
\* shorter than the 8-byte nonce plus the tag (lengths 0 to 8 + TAG_LEN - 1).
C37_ShortPacketIsError ==
    [][(/\ pkt_layer = "disco"
        /\ pkt_res = "none"
        /\ pkt_res' /= "none"
        /\ Len(DtpPayload(pkt_lower)) < NonceLen + TagLen)
          => pkt_res' = "Err"]_vars

\* C38: for every max_rtx from 0 to 255 the budget stored for a new
\* Transfer is 1 + max_rtx, the Transfer is transmitted 1 + max_rtx times
\* before the channel times out, and the conversion to the i8 counter
\* loses no value.
C38_BudgetForEveryMaxRtx ==
    /\ send_res /= "panic"
    /\ \A i \in 1..Len(txs) :
          /\ (txs[i].sent = 0 /\ txs[i].pc = "send")
                => txs[i].tx_left = 1 + max_rtx
          /\ timedout => txs[i].sent = 1 + max_rtx

\* C38 for the values the conversion keeps: max_rtx up to 126
BudgetUpTo126 ==
    max_rtx <= 126 =>
        /\ send_res /= "panic"
        /\ \A i \in 1..Len(txs) :
              /\ (txs[i].sent = 0 /\ txs[i].pc = "send")
                    => txs[i].tx_left = 1 + max_rtx
              /\ timedout => txs[i].sent = 1 + max_rtx

\* C39: at every value of last_ack, 65535 included, the in-order test
\* computes the successor without overflow, and the Transfer the sender's
\* wrapping counter produces next (seq_num 0 after 65535) is accepted as in
\* order and last_ack advances to it.
C39_SuccessorAccepted ==
    [][/\ recv_res' /= "panic"
       /\ \A sn \in arrived' \ arrived :
             sn = (last_ack + 1) % SeqMod
                => /\ recv_res' = "Ok"
                   /\ last_ack' = sn]_vars

\* C39 below the wrap: the successor of every last_ack up to 65534 is
\* accepted and last_ack advances to it
SuccessorBelowWrap ==
    [][last_ack < SeqMod - 1 =>
         /\ recv_res' /= "panic"
         /\ \A sn \in arrived' \ arrived :
               sn = last_ack + 1 => recv_res' = "Ok" /\ last_ack' = sn]_vars

\* C40: at any time the application holds at most one live DtpChannel per
\* key (peer_addr, channel_id): once outgoing succeeded for a key or incoming
\* yielded it, neither produces a second channel for the key until the
\* first is dropped.
C40_OneHandlePerKey == \A k \in Keys : handles[k] <= 1

====
